---- MODULE Spec2Model ----
(***************************************************************************)
(* Layer registry of GLWindow (gui_modules/nviz_mapdisp.py): the list of   *)
(* loaded layer-tree items, their engine 'object' id records, the list of  *)
(* constant surfaces, and the display engine they mirror.                  *)
(***************************************************************************)
EXTENDS Integers, Sequences, FiniteSets, TLC

\* ------------------------------------------------------------------ bounds
\* the surface is queried until the list of query points holds MaxQPoints
MaxQPoints == 3
\* the engine holds at most MaxId objects of a kind under the ids 1..MaxId
MaxId == 2
\* at most MaxConst constant surfaces are alive at once
MaxConst == 2
\* NewConstant is not taken once the next constant name would exceed MaxName
MaxName == 3
\* the engine has MaxCPlanes cutting planes
MaxCPlanes == 2
\* at most MaxDirty update markers are pending on a property record at once
MaxDirty == 3

\* ------------------------------------------------------- layer-tree fixtures
Node == 1..4
Supported == {"raster", "vector", "3d-raster"}
Sub == {"surface", "volume", "points", "lines"}

NoKids == [n \in Node |-> <<>>]
NoSpace == [n \in Node |-> FALSE]
Zeros == [n \in Node |-> 0]

\* The layer trees the window is opened on.  root: the children of the tree
\* root in sibling order; kids: the children of each group; space: the map
\* name contains a blank ("raster (double click to set properties)");
\* name: the map name of each item;
\* npoints/nlines: what VectorInfo reports for a vector map.
Trees ==
  << \* two rasters next to each other
     [ root    |-> <<1, 2>>,
       kids    |-> NoKids,
       type    |-> <<"raster", "raster", "command", "command">>,
       name    |-> << "a", "b", "c", "d" >>,
       space   |-> NoSpace,
       npoints |-> Zeros,
       nlines  |-> Zeros ],
     \* a group of a volume and a vector, followed by a raster
     [ root    |-> <<1, 4>>,
       kids    |-> [NoKids EXCEPT ![1] = <<2, 3>>],
       type    |-> <<"group", "3d-raster", "vector", "raster">>,
       name    |-> << "a", "b", "c", "d" >>,
       space   |-> NoSpace,
       npoints |-> [Zeros EXCEPT ![3] = 2],
       nlines  |-> [Zeros EXCEPT ![3] = 3] ],
     \* an unconfigured placeholder between a raster and a points-only
     \* vector, and a command layer
     [ root    |-> <<1, 2, 4, 3>>,
       kids    |-> NoKids,
       type    |-> <<"raster", "raster", "vector", "command">>,
       name    |-> << "a", "b", "c", "d" >>,
       space   |-> [NoSpace EXCEPT ![2] = TRUE],
       npoints |-> [Zeros EXCEPT ![3] = 3],
       nlines  |-> Zeros ],
     \* a group that is the last of its siblings, a vector without features
     [ root    |-> <<1, 2>>,
       kids    |-> [NoKids EXCEPT ![2] = <<3, 4>>],
       type    |-> <<"raster", "group", "vector", "3d-raster">>,
       name    |-> << "a", "b", "c", "d" >>,
       space   |-> NoSpace,
       npoints |-> Zeros,
       nlines  |-> Zeros ],
     \* a single raster
     [ root    |-> <<1>>,
       kids    |-> NoKids,
       type    |-> <<"raster", "command", "command", "command">>,
       name    |-> << "a", "b", "c", "d" >>,
       space   |-> NoSpace,
       npoints |-> Zeros,
       nlines  |-> Zeros ],
     \* a lines-only vector
     [ root    |-> <<1>>,
       kids    |-> NoKids,
       type    |-> <<"vector", "command", "command", "command">>,
       name    |-> << "a", "b", "c", "d" >>,
       space   |-> NoSpace,
       npoints |-> Zeros,
       nlines  |-> [Zeros EXCEPT ![1] = 5] ],
     \* a raster and a lines-only vector that can be draped on it
     [ root    |-> <<1, 2>>,
       kids    |-> NoKids,
       type    |-> <<"raster", "vector", "command", "command">>,
       name    |-> << "a", "b", "c", "d" >>,
       space   |-> NoSpace,
       npoints |-> Zeros,
       nlines  |-> [Zeros EXCEPT ![2] = 1] ],
     \* a raster and a points-only vector that can be draped on it
     [ root    |-> <<1, 2>>,
       kids    |-> NoKids,
       type    |-> <<"raster", "vector", "command", "command">>,
       name    |-> << "a", "b", "c", "d" >>,
       space   |-> NoSpace,
       npoints |-> [Zeros EXCEPT ![2] = 1],
       nlines  |-> Zeros ] >>

\* the trees the layer registry is run on, and the tree the constant
\* surfaces are run on (beside its raster, which shares their id space)
LayerTrees == {1, 2, 3, 4, 6}
ConstTrees == {5}
\* the trees the reference surfaces of a vector are run on
RefTrees == {7, 8}

\* ------------------------------------------------------------------- state
VARIABLES
  tree,       \* index of the layer tree (self.tree)
  checked,    \* item.IsChecked() of every tree item
  layers,     \* self.layers: list of loaded layer-tree items
  obj,        \* obj[item][sub]: the id of the 'object' record, NoObj if absent
  constants,  \* self.constants: list of [id, name] of the 'object' records
  eng,        \* eng[kind]: ids of the objects alive in the display engine
  engConst,   \* ids of the constant surfaces alive in the engine, as added
  askConst,   \* ids of those the engine was not yet asked to unload
  init,       \* self.init
  initView,   \* self.initView
  op,         \* the handler that ran last
  exc,        \* the exception that ended it, "none" if it returned
  data,       \* the property record (event.data) the property flush works on
  cplanes,    \* self.cplanes: the stored cutting-plane records
  engCP,      \* the engine's cutting planes: the planes it has selected
  view,       \* self.view: whether 'value' is set in view['z-exag']
  iview,      \* self.iview: the focus point
  arg,        \* the event or arguments of the last property/plane/view handler
  pcalls,     \* the property, plane and view calls the last handler issued
  qpoints,    \* self.qpoints: the list of query points
  log,        \* the lines the last handler wrote to the log
  nviz,       \* nviz[item]: the 'surface' property record of a raster item
  ui,         \* self.light, the fringe controls and the client size
  cmd,        \* what the last Nviz_cmd_command returned
  nvizThread, \* the worker thread: its position and its _display
  display,    \* self._display of the window
  pc,         \* the position of the window's constructor
  calls,      \* the engine load/unload calls it issued, in order
  att         \* the tree items its load pass attempted to load

vars == << tree, checked, layers, obj, constants, eng, engConst, askConst,
           init, initView, op, exc, calls, att,
           data, cplanes, engCP, view, iview, arg, pcalls,
           qpoints, log, nviz, ui, cmd, nvizThread, display, pc >>

\* what the layer registry's handlers leave alone
propVars == << data, cplanes, engCP, view, iview, arg >>
\* what the handlers of the registry, the properties, the planes and the
\* view leave alone
sceneVars == << qpoints, log, nviz, ui, cmd, nvizThread, display, pc >>
\* what the property, plane and view handlers leave alone
layerVars == << tree, checked, layers, obj, constants, eng, engConst, askConst,
                init, initView, calls, att >>

NoObj == -1
\* The engine's answer to a load: it fails (a negative id), or creates the
\* object under the id 0, or under a positive id.  The code only stores and
\* passes positive ids on, so which free one the engine picks makes no
\* difference: it picks the least.
LoadAns == {"fail", "zero", "new"}
UnloadRet == {0, 1}

T == Trees[tree]
Type(item) == T.type[item]

\* the items of the tree
Items == {n \in Node : \E i \in 1..Len(T.root) :
                         n = T.root[i] \/ n \in {T.kids[T.root[i]][j] : j \in 1..Len(T.kids[T.root[i]])}}

Range(s) == {s[i] : i \in 1..Len(s)}

\* list.remove(x): drops the first occurrence
RemoveFirst(s, x) ==
  LET i == CHOOSE k \in 1..Len(s) : s[k] = x /\ \A j \in 1..(k-1) : s[j] # x
  IN  SubSeq(s, 1, i-1) \o SubSeq(s, i+1, Len(s))

\* del list[i]
DelAt(s, i) == SubSeq(s, 1, i-1) \o SubSeq(s, i+1, Len(s))

\* ----------------------------------------------------------- _GetDataLayers
\* item is sibs[i]; GetNextSibling gives None after the last sibling.
\* ok = FALSE: the walk raised (None.IsChecked()).
RECURSIVE GetDataLayers(_, _, _)
GetDataLayers(sibs, i, litems) ==
  IF i > Len(sibs)
  THEN [ok |-> TRUE, litems |-> litems]
  ELSE
    LET item == sibs[i]
        type == Type(item)
    IN
    IF type = "group"
    THEN LET sub == GetDataLayers(T.kids[item], 1, litems)
         IN  IF ~sub.ok THEN sub
             ELSE IF i + 1 > Len(sibs)
             THEN \* item is None now: item.IsChecked() raises
                  [ok |-> FALSE, litems |-> sub.litems]
             ELSE \* type still holds 'group': the sibling is passed over
                  GetDataLayers(sibs, i + 2, sub.litems)
    ELSE IF ~checked[item] \/ type \notin Supported
    THEN GetDataLayers(sibs, i + 1, litems)
    ELSE GetDataLayers(sibs, i + 1, Append(litems, item))

\* the list built from the first child of the tree root
Snapshot == GetDataLayers(T.root, 1, <<>>)

\* ------------------------------------------------------------ display engine
\* the id a new object of a kind gets; NoId if the engine cannot give that answer
NoId == -2
NewId(alive, ans) ==
  IF ans = "fail" THEN -1
  ELSE IF ans = "zero" THEN (IF 0 \in alive THEN NoId ELSE 0)
  ELSE IF \E i \in 1..MaxId : i \notin alive
       THEN CHOOSE i \in 1..MaxId : i \notin alive /\ \A j \in 1..(i-1) : j \in alive
       ELSE NoId

\* Load*(name) -> id, negative on failure; a new object gets an id no living
\* object of its kind holds (valid: the engine can give the answer drawn).
EngineLoad(st, kind, item, ans) ==
  LET ret == NewId(st.eng[kind], ans)
  IN  [st EXCEPT !.calls = Append(@, [op |-> "Load", kind |-> kind, node |-> item,
                                      id |-> ret, ret |-> ret]),
                 !.eng[kind] = IF ret >= 0 THEN @ \cup {ret} ELSE @,
                 !.ret = ret,
                 !.valid = @ /\ ret # NoId]

\* Unload*(id) -> 0 on failure; a failed unload leaves the object alive.
EngineUnload(st, kind, item, id, ret) ==
  [st EXCEPT !.calls = Append(@, [op |-> "Unload", kind |-> kind, node |-> item,
                                  id |-> id, ret |-> ret]),
             !.eng[kind] = IF ret # 0 THEN @ \ {id} ELSE @,
             !.engConst = IF ret # 0 /\ kind = "surface"
                          THEN SelectSeq(@, LAMBDA c : c # id) ELSE @,
             !.askConst = IF kind = "surface"
                          THEN SelectSeq(@, LAMBDA c : c # id) ELSE @]

\* ------------------------------------------------- surface property data
\* A string is the sequence of its pieces: a blank, a comma, an equals sign
\* are pieces of their own, a value without them is one piece, the empty
\* string has none.
\* The 'surface' data of a raster item as the command generator reads it:
\* the draw dictionary with its 'update' markers and 'all' flag, and the
\* colour attribute (present: the key 'color' is there).
NoNviz == [none |-> TRUE]
SurfaceData(mode, shading, style, fine, coarse, wire, color) ==
  [draw |-> [all |-> FALSE,
             mode |-> [desc |-> [mode |-> mode, shading |-> shading,
                                 style |-> style],
                       update |-> FALSE],
             resolution |-> [fine |-> fine, coarse |-> coarse, update |-> FALSE],
             wire |-> [value |-> wire, update |-> FALSE]],
   color |-> color]
NoColor == [present |-> FALSE, map |-> FALSE, value |-> <<>>]
Color(map, value) == [present |-> TRUE, map |-> map, value |-> value]

\* nvizDefault.SetSurfaceDefaultProp(): the draw settings of the user
\* preferences, no colour attribute
SurfaceDefaultProp ==
  SurfaceData(<< "fine" >>, << "gouraud" >>, << "surface" >>, 6, 9,
              << "136:136:136" >>, NoColor)

\* the 'update' markers the draw entries get when the properties are set
SetUpdates(d) ==
  [d EXCEPT !.draw.mode.update = TRUE, !.draw.resolution.update = TRUE,
            !.draw.wire.update = TRUE]

\* ----------------------------------------------------- SetMapObjProperties
\* a raster without data gets the default properties, one with data gets
\* its update markers set; an 'object' record is written for id > 0
SetMapObjProperties(st, item, id, nvizType) ==
  LET s1 == IF nvizType = "surface"
            THEN [st EXCEPT !.nviz[item] =
                    SetUpdates(IF @ = NoNviz THEN SurfaceDefaultProp ELSE @)]
            ELSE st
  IN  IF id > 0 THEN [s1 EXCEPT !.obj[item][nvizType] = id] ELSE s1

\* ------------------------------------------------------------- _loadRaster
loadRaster(st, item, ld) ==
  IF Type(item) \notin {"raster", "3d-raster"} THEN st
  ELSE
    LET nvizType == IF Type(item) = "raster" THEN "surface" ELSE "volume"
        s1 == EngineLoad(st, nvizType, item, ld[<<item, nvizType>>])
        id == s1.ret
        s2 == [s1 EXCEPT !.layers = Append(@, item)]
    IN  SetMapObjProperties(s2, item, id, nvizType)

\* -------------------------------------------------------------- LoadVector
\* points = TRUE loads the points, FALSE the lines
LoadVector(st, item, points, ld) ==
  IF Type(item) # "vector" THEN st
  ELSE
    LET vecType == IF points THEN "points" ELSE "lines"
        s0 == SetMapObjProperties(st, item, -1, vecType)
        s1 == EngineLoad(s0, vecType, item, ld[<<item, vecType>>])
        id == s1.ret
        s2 == SetMapObjProperties(s1, item, id, vecType)
    IN  [s2 EXCEPT !.layers = Append(@, item)]

\* ---------------------------------------------------------- LoadDataLayers
\* the body of the try statement for one item
LoadItem(st, item, ld) ==
  LET s0 == [st EXCEPT !.att = @ \cup {item}]
  IN
  IF Type(item) \in {"raster", "3d-raster"} THEN loadRaster(s0, item, ld)
  ELSE \* vector
    LET s1 == IF T.npoints[item] > 0 THEN LoadVector(s0, item, TRUE, ld) ELSE s0
    IN  IF T.nlines[item] > 0 THEN LoadVector(s1, item, FALSE, ld) ELSE s1

\* while len(listOfItems) > 0: item = listOfItems.pop() ...
RECURSIVE LoadLoop(_, _, _)
LoadLoop(st, listOfItems, ld) ==
  IF listOfItems = <<>> THEN st
  ELSE
    LET item == listOfItems[Len(listOfItems)]
        rest == SubSeq(listOfItems, 1, Len(listOfItems) - 1)
    IN
    IF item \in Range(st.layers) THEN LoadLoop(st, rest, ld)
    ELSE IF T.space[item] THEN st
    ELSE LoadLoop([LoadItem(st, item, ld) EXCEPT !.init = FALSE], rest, ld)

LoadDataLayers(st, ld) ==
  LET snap == Snapshot
  IN  IF ~snap.ok THEN [st EXCEPT !.exc = "AttributeError"]
      ELSE LoadLoop(st, snap.litems, ld)

\* ----------------------------------------------------------- _unloadRaster
unloadRaster_KeepOnFailure(st, item, ul) ==
  IF Type(item) \notin {"raster", "3d-raster"} THEN st
  ELSE
    LET nvizType == IF Type(item) = "raster" THEN "surface" ELSE "volume"
        id == st.obj[item][nvizType]
        ret == ul[<<item, nvizType>>]
    IN
    IF id = NoObj THEN [st EXCEPT !.exc = "KeyError"]
    ELSE
      LET s1 == EngineUnload(st, nvizType, item, id, ret)
      IN  [s1 EXCEPT !.obj[item][nvizType] = IF ret = 0 THEN id ELSE NoObj,
                     !.layers = RemoveFirst(@, item)]

unloadRaster_NoCall(st, item, ul) ==
  IF Type(item) \notin {"raster", "3d-raster"} THEN st
  ELSE
    LET nvizType == IF Type(item) = "raster" THEN "surface" ELSE "volume"
    IN  IF st.obj[item][nvizType] = NoObj THEN [st EXCEPT !.exc = "KeyError"]
        ELSE [st EXCEPT !.obj[item][nvizType] = NoObj,
                        !.layers = RemoveFirst(@, item)]

unloadRaster(st, item, ul) ==
  IF Type(item) \notin {"raster", "3d-raster"} THEN st
  ELSE
    LET nvizType == IF Type(item) = "raster" THEN "surface" ELSE "volume"
        id == st.obj[item][nvizType]
    IN
    IF id = NoObj THEN [st EXCEPT !.exc = "KeyError"]
    ELSE
      LET s1 == EngineUnload(st, nvizType, item, id, ul[<<item, nvizType>>])
      IN  [s1 EXCEPT !.obj[item][nvizType] = NoObj,
                     !.layers = RemoveFirst(@, item)]

\* ------------------------------------------------------------ UnloadVector
UnloadVectorType(st, item, vecType, ul) ==
  IF st.obj[item][vecType] = NoObj THEN st
  ELSE
    LET id == st.obj[item][vecType]
        s1 == EngineUnload(st, vecType, item, id, ul[<<item, vecType>>])
    IN  [s1 EXCEPT !.obj[item][vecType] = NoObj]

\* points: "both" stands for None
UnloadVector(st, item, points, ul) ==
  IF points = "both"
  THEN UnloadVectorType(UnloadVectorType(st, item, "points", ul), item, "lines", ul)
  ELSE IF points = "points" THEN UnloadVectorType(st, item, "points", ul)
  ELSE UnloadVectorType(st, item, "lines", ul)

\* -------------------------------------------------------- UnloadDataLayers
UnloadItem(st, layer, ul) ==
  IF Type(layer) \in {"raster", "3d-raster"} THEN unloadRaster(st, layer, ul)
  ELSE IF Type(layer) = "vector"
  THEN UnloadVector(UnloadVector(st, layer, "points", ul), layer, "lines", ul)
  ELSE st

\* for layer in self.layers: the list iterator advances by position while
\* the body removes from the list
RECURSIVE UnloadLoop(_, _, _, _)
UnloadLoop(st, i, listOfItems, ul) ==
  IF st.exc # "none" \/ i > Len(st.layers) THEN st
  ELSE
    LET layer == st.layers[i]
    IN  IF layer \in Range(listOfItems)
        THEN UnloadLoop(st, i + 1, listOfItems, ul)
        ELSE UnloadLoop(UnloadItem(st, layer, ul), i + 1, listOfItems, ul)

UnloadDataLayers(st, ul) ==
  LET snap == Snapshot
  IN  IF ~snap.ok THEN [st EXCEPT !.exc = "AttributeError"]
      ELSE UnloadLoop(st, 1, snap.litems, ul)

\* ------------------------------------------------------------------- Reset
ResetItem(st, item, ul) ==
  IF Type(item) \in {"raster", "3d-raster"} THEN unloadRaster(st, item, ul)
  ELSE IF Type(item) = "vector" THEN UnloadVector(st, item, "both", ul)
  ELSE st

RECURSIVE ResetLoop(_, _, _)
ResetLoop(st, i, ul) ==
  IF st.exc # "none" \/ i > Len(st.layers) THEN st
  ELSE ResetLoop(ResetItem(st, st.layers[i], ul), i + 1, ul)

\* ------------------------------------------------------- the engine's answers
\* the sub-objects an item is loaded as
SubsOf(item) ==
  IF Type(item) = "raster" THEN {"surface"}
  ELSE IF Type(item) = "3d-raster" THEN {"volume"}
  ELSE IF Type(item) = "vector"
  THEN {s \in {"points", "lines"} :
           (s = "points" /\ T.npoints[item] > 0) \/ (s = "lines" /\ T.nlines[item] > 0)}
  ELSE {}

\* loads a pass can ask for: checked items of the snapshot that are not loaded
LoadSlots ==
  LET snap == Snapshot
  IN  IF ~snap.ok THEN {}
      ELSE {<<n, s>> \in Node \X Sub :
              n \in Range(snap.litems) /\ n \notin Range(layers) /\ ~T.space[n]
              /\ s \in SubsOf(n)}

\* unloads Reset can ask for: the 'object' records of the loaded items
ResetSlots == {<<n, s>> \in Node \X Sub : n \in Range(layers) /\ obj[n][s] # NoObj}

\* unloads a pass can ask for: those of the loaded items not in the snapshot
UnloadSlots ==
  LET snap == Snapshot
  IN  IF ~snap.ok THEN {}
      ELSE {sl \in ResetSlots : sl[1] \notin Range(snap.litems)}

Start == [layers |-> layers, obj |-> obj, eng |-> eng, engConst |-> engConst,
          askConst |-> askConst, nviz |-> nviz,
          calls |-> <<>>, init |-> init, exc |-> "none", att |-> {}, ret |-> NoId,
          valid |-> TRUE]

\* no property record, no cutting plane record yet (InitCPlanes runs after
\* construction), the engine's planes unselected, the focus unset
NoData == [kind |-> "none"]
Coord == {-1, 0, 1}
FocusUnset == [x |-> -1, y |-> -1, z |-> -1]
\* UserSettings 'nviz'/'view': position (in hundredths), perspective and its
\* step, twist
UserView == [x |-> 84, y |-> 16, persp |-> 20, step |-> 5, twist |-> 0]
\* the steps view['persp']['step'] can hold
Steps == {-7, 0, UserView.step, 30, 150}
\* what SetViewDefault() can return: z-exag value, height value, min, max
EngineViews == {[zexag |-> 1, height |-> 3, min |-> 0, max |-> 6],
                [zexag |-> 2, height |-> 5, min |-> 1, max |-> 9]}
\* self.view as copied from the preferences (zexag: view['z-exag'] holds
\* 'value', 'min' and 'max'), self.iview
ViewOf(step) ==
  [zexag |-> FALSE, zvalue |-> 0, zmin |-> 0, zmax |-> 0,
   x |-> UserView.x, y |-> UserView.y, persp |-> UserView.persp,
   step |-> step, twist |-> UserView.twist, bg |-> "white"]
IViewUnset == [focus |-> FocusUnset, height |-> [value |-> 0, min |-> 0, max |-> 0]]

\* ResetView on the view v and internal view iv: def is what SetViewDefault
\* returns, f the focus GetFocus reports after LookAtCenter
ZExagMax_Value(value) == value
ZExagMax(value) == value * 10
ResetViewOn(v, iv, def, f) ==
  [view  |-> [v EXCEPT !.zexag = TRUE, !.zvalue = def.zexag,
                       !.zmin = 0, !.zmax = ZExagMax(def.zexag),
                       !.x = UserView.x, !.y = UserView.y,
                       !.persp = UserView.persp, !.twist = UserView.twist],
   iview |-> [iv EXCEPT !.height = [value |-> def.height, min |-> def.min,
                                    max |-> def.max],
                        !.focus = f],
   pcalls |-> << [op |-> "SetViewDefault", id |-> 0, arg |-> <<>>],
                 [op |-> "LookAtCenter", id |-> 0, arg |-> <<>>],
                 [op |-> "GetFocus", id |-> 0, arg |-> <<>>] >>]

\* the light of the preferences (position in hundredths, z in percent), no
\* fringe, a window of no size; nothing
\* queried, logged or generated yet; the engine built and handed over
UserLight == [x |-> 68, y |-> 68, z |-> 80, bright |-> 80, ambient |-> 20,
              color |-> "255:255:255"]
UiDefault == [light |-> UserLight, fringe |-> {}, fcolor |-> "128:128:128",
              felev |-> 55, size |-> 0]
Built == [pc |-> "finished", display |-> "engine"]
InitScene ==
  /\ qpoints = <<>>
  /\ log = <<>>
  /\ ui = UiDefault
  /\ cmd = "none"
  /\ nvizThread = Built
  /\ display = "engine"
  /\ pc = "constructed"

InitPropsWith(records) ==
  /\ data \in records
  /\ cplanes = <<>>
  /\ engCP = [sel |-> {}]
  /\ arg = "none"
  /\ view = ViewOf(UserView.step)
  /\ iview = IViewUnset
  /\ pcalls = <<>>

InitProps == InitPropsWith({NoData})

\* ----------------------------------------------------------------- actions
InitRegistry(trees) ==
  /\ tree \in trees
  /\ checked = [n \in Node |-> Trees[tree].type[n] = "command"]
  /\ layers = <<>>
  /\ obj = [n \in Node |-> [s \in Sub |-> NoObj]]
  /\ constants = <<>>
  /\ eng = [k \in Sub |-> {}]
  /\ engConst = <<>>
  /\ askConst = <<>>
  /\ init = FALSE
  /\ initView = FALSE
  /\ op = "init"
  /\ exc = "none"
  /\ calls = <<>>
  /\ att = {}
  /\ nviz = [n \in Node |-> NoNviz]

InitOn(trees) == InitRegistry(trees) /\ InitProps /\ InitScene

\* the user checks or unchecks a layer in the layer tree
ToggleCheck ==
  \E n \in Items :
    /\ Type(n) \in Supported
    /\ checked' = [checked EXCEPT ![n] = ~@]
    /\ op' = "ToggleCheck"
    /\ exc' = "none"
    /\ calls' = <<>>
    /\ att' = {}
    /\ pcalls' = <<>>
    /\ UNCHANGED << tree, layers, obj, constants, eng, engConst, askConst,
                    init, initView >>
    /\ UNCHANGED propVars
    /\ UNCHANGED sceneVars

\* DoPaint: InitView once, LoadDataLayers, UnloadDataLayers, ResetView when
\* self.init is not set
DoPaintOn(st, view0, iview0, ld, ul, def, f) ==
  LET s1 == LoadDataLayers(st, ld)
      s2 == IF s1.exc = "none" THEN UnloadDataLayers(s1, ul) ELSE s1
      rv == IF s2.exc = "none" /\ ~s2.init
            THEN ResetViewOn(view0, iview0, def, f)
            ELSE [view |-> view0, iview |-> iview0, pcalls |-> <<>>]
      s3 == IF s2.exc = "none" THEN [s2 EXCEPT !.init = TRUE] ELSE s2
  IN  [st |-> s3, view |-> rv.view, iview |-> rv.iview, pcalls |-> rv.pcalls]

\* the engine's view defaults and centred focus during a paint
PaintView == CHOOSE def \in EngineViews : def.zexag = 1
PaintFocus == [x |-> 0, y |-> 0, z |-> 0]

DoPaint ==
  \E ld \in [LoadSlots -> LoadAns], ul \in [UnloadSlots -> UnloadRet] :
    \E p \in {DoPaintOn(Start, view, iview, ld, ul, PaintView, PaintFocus)} :
    LET s3 == p.st
    IN  /\ s3.valid
        /\ initView' = TRUE
        /\ layers' = s3.layers
        /\ obj' = s3.obj
        /\ eng' = s3.eng
        /\ engConst' = s3.engConst
        /\ askConst' = s3.askConst
        /\ nviz' = s3.nviz
        /\ init' = s3.init
        /\ op' = "DoPaint"
        /\ exc' = s3.exc
        /\ calls' = s3.calls
        /\ att' = s3.att
        /\ view' = p.view
        /\ iview' = p.iview
        /\ pcalls' = p.pcalls
        /\ UNCHANGED << tree, checked, constants >>
        /\ UNCHANGED << data, cplanes, engCP, arg >>
        /\ UNCHANGED << qpoints, log, ui, cmd, nvizThread, display, pc >>

\* Reset (also what OnClose runs)
Reset ==
  \E ul \in [ResetSlots -> UnloadRet] :
    LET s1 == ResetLoop(Start, 1, ul)
        s2 == IF s1.exc = "none" THEN [s1 EXCEPT !.init = FALSE] ELSE s1
    IN  /\ layers' = s2.layers
        /\ obj' = s2.obj
        /\ eng' = s2.eng
        /\ engConst' = s2.engConst
        /\ askConst' = s2.askConst
        /\ init' = s2.init
        /\ op' = "Reset"
        /\ exc' = s2.exc
        /\ calls' = s2.calls
        /\ att' = {}
        /\ pcalls' = <<>>
        /\ UNCHANGED << tree, checked, constants, initView >>
        /\ UNCHANGED propVars
        /\ UNCHANGED sceneVars

NextName_Count == Len(constants) + 1

\* the name NewConstant gives: the last constant's name + 1, 1 for an empty list
NextName ==
  IF constants = <<>> THEN 1 ELSE constants[Len(constants)].name + 1

\* nvizDefault.SetConstantDefaultProp() with the 'object' record AddConstant
\* writes: value, resolution and colour of the user preferences
ConstantDefaultProp(id, name) ==
  [id |-> id, name |-> name, value |-> 0, resolution |-> 6,
   color |-> << "117:119:120" >>]

\* NewConstant, with the AddConstant it ends in
NewConstant ==
  /\ Len(constants) < MaxConst
  /\ NextName <= MaxName
  /\ \E ans \in {"zero", "new"} :
      LET id == NewId(eng["surface"], ans) IN
       /\ id # NoId
       /\ constants' = Append(constants, ConstantDefaultProp(id, NextName))
       /\ eng' = [eng EXCEPT !["surface"] = @ \cup {id}]
       /\ engConst' = Append(engConst, id)
       /\ askConst' = Append(askConst, id)
       /\ calls' = << [op |-> "AddConstant", kind |-> "surface", node |-> 0,
                       id |-> id, ret |-> id] >>
  /\ op' = "NewConstant"
  /\ exc' = "none"
  /\ att' = {}
  /\ pcalls' = <<>>
  /\ UNCHANGED << tree, checked, layers, obj, init, initView >>
  /\ UNCHANGED propVars
  /\ UNCHANGED sceneVars

DelConstant_Last(cs, index) == SubSeq(cs, 1, Len(cs) - 1)

\* del self.constants[index]
DelConstant(cs, index) == DelAt(cs, index)

DeleteConstant ==
  \E index \in 1..Len(constants), ret \in UnloadRet :
    LET id == constants[index].id
        s1 == EngineUnload(Start, "surface", 0, id, ret)
    IN  /\ constants' = DelConstant(constants, index)
        /\ eng' = s1.eng
        /\ engConst' = s1.engConst
        /\ askConst' = s1.askConst
        /\ calls' = s1.calls
        /\ op' = "DeleteConstant"
        /\ exc' = "none"
        /\ att' = {}
        /\ pcalls' = <<>>
        /\ UNCHANGED << tree, checked, layers, obj, init, initView >>
        /\ UNCHANGED propVars
        /\ UNCHANGED sceneVars

\* the layer registry
Init == InitOn(LayerTrees)
Next == ToggleCheck \/ DoPaint \/ Reset
Spec == Init /\ [][Next]_vars

\* the constant surfaces beside the layer registry
InitConst == InitOn(ConstTrees)
NextConst == ToggleCheck \/ DoPaint \/ Reset \/ NewConstant \/ DeleteConstant
SpecConst == InitConst /\ [][NextConst]_vars

\* --------------------------------------------------------- property store
\* One attribute of a surface or isosurface: shape tells what 'map' and
\* 'value' hold (absent: the key is missing; unset: map is None; empty: the
\* value is an empty string; value: a value to set), update is the marker.
Shape == {"absent", "unset", "empty", "value"}
SurfAttrs == << "color", "mask", "transp", "shine" >>
IsoAttrs == << "color", "mask", "transp", "shine", "emit" >>
\* the attributes with an unset form
SurfUnset == {"mask", "transp"}
IsoUnset == {"mask", "transp", "emit"}
Clean == [update |-> FALSE]

\* an engine call: the object it targets and its kind, and the attributes
\* whose values it carries
NoSid == [t |-> "none", v |-> 0]
Call(o, kind, id, attrs) ==
  [op |-> o, kind |-> kind, id |-> id, attrs |-> attrs, item |-> 0, sid |-> NoSid]

\* the setter of a surface attribute
SurfSetter(attrb) ==
  CASE attrb = "color"  -> "SetSurfaceColor"
    [] attrb = "mask"   -> "SetSurfaceMask"
    [] attrb = "transp" -> "SetSurfaceTransp"
    [] OTHER            -> "SetSurfaceShine"

SurfUnsetter_Transp(attrb) == "UnsetSurfaceTransp"

SurfUnsetter(attrb) ==
  IF attrb = "mask" THEN "UnsetSurfaceMask" ELSE "UnsetSurfaceTransp"

\* the surface attribute loop of UpdateSurfaceProperties
RECURSIVE SurfAttrLoop(_, _, _)
SurfAttrLoop(st, id, i) ==
  IF i > Len(SurfAttrs) THEN st
  ELSE
    LET attrb == SurfAttrs[i]
        a == st.data.attribute[attrb]
        popped == [st EXCEPT !.data.attribute[attrb].update = FALSE]
        path == {<< "attribute", attrb >>}
    IN  IF a.shape = "absent" \/ ~a.update THEN SurfAttrLoop(st, id, i + 1)
        ELSE IF a.shape = "unset"
          THEN SurfAttrLoop(
                 IF attrb \in SurfUnset
                 THEN [popped EXCEPT !.pcalls =
                         Append(@, Call(SurfUnsetter(attrb), "surface", id, path))]
                 ELSE popped,
                 id, i + 1)
        ELSE IF a.shape = "empty" THEN SurfAttrLoop(st, id, i + 1)
        ELSE SurfAttrLoop(
               [popped EXCEPT !.pcalls =
                  Append(@, Call(SurfSetter(attrb), "surface", id, path))],
               id, i + 1)

Target_Specific(all, id) == id

\* the object a draw call of the surface flush targets
Target(all, id) == IF all THEN -1 ELSE id

ClearAll_WhenPushed(d0, d) ==
  IF \/ d0.draw.resolution.update
     \/ d0.draw.mode.update
     \/ d0.draw.wire.update
  THEN [d EXCEPT !.draw.all = FALSE] ELSE d

\* data['draw']['all'] = False, d0 the record as the flush got it
ClearAll(d0, d) == [d EXCEPT !.draw.all = FALSE]

\* the code nvizDefault.GetDrawMode computes for a draw mode
DrawModeCode == 1

\* nvizDefault.GetDrawMode(mode, style, shade, string = True): the draw-mode
\* bits of the engine for the three names
GetDrawMode(mode, style, shade) ==
  (IF mode = "coarse" THEN 1 ELSE IF mode = "fine" THEN 4 ELSE 8)
  + (IF style = "wire" THEN 1024 ELSE 2048)
  + (IF shade = "flat" THEN 512 ELSE 256)

NeedCalc_Always(value) == TRUE

\* data['draw']['mode']['value'] < 0: need to calculate
NeedCalc(value) == value < 0

\* a call that computes or carries the draw-mode code
StyleCall(o, id, style) ==
  [op |-> o, kind |-> "surface", id |-> id, attrs |-> {<< "draw", "mode" >>},
   item |-> 0, sid |-> NoSid, style |-> style]

UpdateSurfaceProperties(st0, id) ==
  LET d0 == st0.data
      s1 == SurfAttrLoop(st0, id, 1)
      s2 == IF s1.data.draw.resolution.update
            THEN [s1 EXCEPT
                    !.pcalls = Append(@, Call("SetSurfaceRes", "surface",
                                  Target(d0.draw.all, id), {<< "draw", "resolution" >>})),
                    !.data.draw.resolution.update = FALSE]
            ELSE s1
      s3 == IF s2.data.draw.mode.update
            THEN LET m == s2.data.draw.mode
                     style == IF NeedCalc(m.value)
                              THEN GetDrawMode(m.desc.mode, m.desc.style,
                                               m.desc.shading)
                              ELSE m.value
                 IN  [s2 EXCEPT
                        !.data.draw.mode.value = style,
                        !.pcalls = @ \o (IF NeedCalc(m.value)
                                         THEN << StyleCall("GetDrawMode", NoObj, style) >>
                                         ELSE <<>>)
                                   \o << StyleCall("SetSurfaceStyle",
                                                   Target(d0.draw.all, id), style) >>,
                        !.data.draw.mode.update = FALSE]
            ELSE s2
      s4 == IF s3.data.draw.wire.update
            THEN [s3 EXCEPT
                    !.pcalls = Append(@, Call("SetWireColor", "surface",
                                  Target(d0.draw.all, id), {<< "draw", "wire" >>})),
                    !.data.draw.wire.update = FALSE]
            ELSE s3
      s5 == IF s4.data.position.update
            THEN [s4 EXCEPT
                    !.pcalls = Append(@, Call("SetSurfacePosition", "surface",
                                  id, {<< "position" >>})),
                    !.data.position.update = FALSE]
            ELSE s4
  IN  [s5 EXCEPT !.data = ClearAll(d0, @)]

\* UpdateConstantProperties: colour, value and resolution, each time
UpdateConstantProperties(st, id) ==
  [st EXCEPT !.pcalls = @ \o
     << Call("SetSurfaceColor", "constant", id, {<< "color" >>}),
        Call("SetSurfaceTopo", "constant", id, {<< "value" >>}),
        Call("SetSurfaceRes", "constant", id, {<< "resolution" >>}) >>]

IsoSetter(attrb) ==
  CASE attrb = "color"  -> "SetIsosurfaceColor"
    [] attrb = "mask"   -> "SetIsosurfaceMask"
    [] attrb = "transp" -> "SetIsosurfaceTransp"
    [] attrb = "shine"  -> "SetIsosurfaceShine"
    [] OTHER            -> "SetIsosurfaceEmit"

IsoUnsetter(attrb) ==
  CASE attrb = "mask"   -> "UnsetIsosurfaceMask"
    [] attrb = "transp" -> "UnsetIsosurfaceTransp"
    [] OTHER            -> "UnsetIsosurfaceEmit"

\* the attribute loop of UpdateVolumeProperties over isosurface isosurfId
RECURSIVE IsoAttrLoop(_, _, _, _)
IsoAttrLoop(st, id, isosurfId, i) ==
  IF i > Len(IsoAttrs) THEN st
  ELSE
    LET attrb == IsoAttrs[i]
        a == st.data.isosurface[isosurfId + 1][attrb]
        popped == [st EXCEPT
                     !.data.isosurface[isosurfId + 1][attrb].update = FALSE]
        path == {<< "isosurface", attrb >>}
    IN  IF a.shape = "absent" \/ ~a.update
          THEN IsoAttrLoop(st, id, isosurfId, i + 1)
        ELSE IF a.shape = "unset"
          THEN IsoAttrLoop(
                 IF attrb \in IsoUnset
                 THEN [popped EXCEPT !.pcalls =
                         Append(@, Call(IsoUnsetter(attrb), "volume", id, path))]
                 ELSE popped,
                 id, isosurfId, i + 1)
        ELSE IF a.shape = "empty" THEN IsoAttrLoop(st, id, isosurfId, i + 1)
        ELSE IsoAttrLoop(
               [popped EXCEPT !.pcalls =
                  Append(@, Call(IsoSetter(attrb), "volume", id, path))],
               id, isosurfId, i + 1)

RECURSIVE IsosurfLoop(_, _, _)
IsosurfLoop(st, id, isosurfId) ==
  IF isosurfId >= Len(st.data.isosurface) THEN st
  ELSE IsosurfLoop(IsoAttrLoop(st, id, isosurfId, 1), id, isosurfId + 1)

UpdateVolumeProperties(st0, id) ==
  LET s1 == IF st0.data.draw.resolution.update
            THEN [st0 EXCEPT
                    !.pcalls = Append(@, Call("SetIsosurfaceRes", "volume", id,
                                              {<< "draw", "resolution" >>})),
                    !.data.draw.resolution.update = FALSE]
            ELSE st0
      s2 == IF s1.data.draw.shading.update
            THEN [s1 EXCEPT
                    !.data.draw.shading.value =
                       IF @ < 0 THEN DrawModeCode ELSE @,
                    !.data.draw.shading.update = FALSE]
            ELSE s1
  IN  IsosurfLoop(s2, id, 0)

\* ------------------------------------------------- reference surfaces
\* the displayed name of a constant surface
ConstName(c) == "constant#" \o ToString(c.name)

\* what GetLayerId returns: an id or -1, self.constants (a list) when no
\* constant has the name, or it raises KeyError on a listed layer that has
\* no 'object' record
IntRet(v) == [t |-> "int", v |-> v]
ListRet == [t |-> "list", v |-> 0]
KeyError == [t |-> "KeyError", v |-> 0]

RECURSIVE ConstantId(_, _)
ConstantId(i, name) ==
  IF i > Len(constants) THEN ListRet
  ELSE IF ConstName(constants[i]) = name THEN IntRet(constants[i].id)
  ELSE ConstantId(i + 1, name)

ObjectId(item, sub) ==
  IF obj[item][sub] = NoObj THEN KeyError ELSE IntRet(obj[item][sub])

RECURSIVE LayerId(_, _, _, _)
LayerId(i, type, name, vsubtyp) ==
  IF i > Len(layers) THEN IntRet(-1)
  ELSE LET item == layers[i] IN
       IF type # Type(item) \/ name # T.name[item]
         THEN LayerId(i + 1, type, name, vsubtyp)
       ELSE IF type = "raster" THEN ObjectId(item, "surface")
       ELSE IF type = "vector" /\ vsubtyp = "vpoint" THEN ObjectId(item, "points")
       ELSE IF type = "vector" /\ vsubtyp = "vline" THEN ObjectId(item, "lines")
       ELSE IF type = "3d-raster" THEN ObjectId(item, "volume")
       ELSE LayerId(i + 1, type, name, vsubtyp)

GetLayerId(type, name, vsubtyp) ==
  IF name = "" THEN IntRet(-1)
  ELSE IF type = "constant" THEN ConstantId(1, name)
  ELSE LayerId(1, type, name, vsubtyp)

\* sid > -1 as the interpreter evaluates it: a list is greater than any number
GreaterThanMinusOne(sid) == sid.t = "list" \/ (sid.t = "int" /\ sid.v > -1)

\* the lookup 'for type in (raster, constant)' of one reference name: the
\* first answer greater than -1, -1 if none, or the KeyError
ResolveSurface(name) ==
  LET r == GetLayerId("raster", name, "none")
      c == GetLayerId("constant", name, "none")
  IN  IF r.t = "KeyError" THEN r
      ELSE IF GreaterThanMinusOne(r) THEN r
      ELSE IF GreaterThanMinusOne(c) THEN c
      ELSE IntRet(-1)

\* the loop over the reference surfaces of a lines or points record
RECURSIVE SurfaceLoop(_, _, _, _)
SurfaceLoop(st, sub, id, item) ==
  LET surface == st.data[sub].mode.surface IN
  IF item > Len(surface.value) \/ st.exc # "none" THEN st
  ELSE
    LET sid == ResolveSurface(surface.value[item])
        setter == IF sub = "lines"
                  THEN (IF surface.show[item] THEN "SetVectorLineSurface"
                        ELSE "UnsetVectorLineSurface")
                  ELSE (IF surface.show[item] THEN "SetVectorPointSurface"
                        ELSE "UnsetVectorPointSurface")
    IN  IF sid.t = "KeyError"
          THEN [st EXCEPT !.exc = "KeyError"]
        ELSE IF GreaterThanMinusOne(sid)
          THEN SurfaceLoop(
                 [st EXCEPT !.pcalls = Append(@,
                    [Call(setter, sub, id, {<< sub, "mode" >>})
                       EXCEPT !.item = item, !.sid = sid])],
                 sub, id, item + 1)
        ELSE SurfaceLoop(st, sub, id, item + 1)

NoSurface == [present |-> FALSE, value |-> <<>>, show |-> <<>>]

UpdateVectorLinesProperties(st0, id) ==
  LET d0 == st0.data.lines
      s1 == IF d0.color.update \/ d0.width.update \/ d0.mode.update
            THEN [st0 EXCEPT
                    !.data.lines.mode.surface =
                       IF d0.mode.type = "flat" THEN NoSurface ELSE @,
                    !.pcalls = Append(@, Call("SetVectorLineMode", "lines", id,
                       {<< "lines", "color" >>, << "lines", "width" >>,
                        << "lines", "mode" >>})),
                    !.data.lines.color.update = FALSE,
                    !.data.lines.width.update = FALSE]
            ELSE st0
      s2 == IF s1.data.lines.height.update
            THEN [s1 EXCEPT
                    !.pcalls = Append(@, Call("SetVectorLineHeight", "lines", id,
                                              {<< "lines", "height" >>})),
                    !.data.lines.height.update = FALSE]
            ELSE s1
      s3 == IF s2.data.lines.mode.surface.present /\ s2.data.lines.mode.update
            THEN SurfaceLoop(s2, "lines", id, 1)
            ELSE s2
  IN  IF s3.exc # "none" THEN s3
      ELSE [s3 EXCEPT !.data.lines.mode.update = FALSE]

\* what SetVectorPointMode returns: 0, -1 (layer not found), -2 (not set)
PointModeRet == {0, -1, -2}
PointProps == << "size", "width", "marker", "color" >>

PointError_Popped(called) ==
  [called EXCEPT !.exc = "GException",
                 !.data.points.size.update = FALSE,
                 !.data.points.width.update = FALSE,
                 !.data.points.marker.update = FALSE,
                 !.data.points.color.update = FALSE]

\* raise gcmd.GException: the markers are dropped only after it
PointError(called) == [called EXCEPT !.exc = "GException"]

UpdateVectorPointsProperties(st0, id, ret) ==
  LET d0 == st0.data.points
      s1 == IF \E i \in 1..Len(PointProps) : d0[PointProps[i]].update
            THEN LET called == [st0 EXCEPT !.pcalls = Append(@,
                        Call("SetVectorPointMode", "points", id,
                             {<< "points", PointProps[i] >> :
                                i \in 1..Len(PointProps)}))]
                 IN  IF ret \in {-1, -2}
                     THEN PointError(called)
                     ELSE [called EXCEPT
                             !.data.points.size.update = FALSE,
                             !.data.points.width.update = FALSE,
                             !.data.points.marker.update = FALSE,
                             !.data.points.color.update = FALSE]
            ELSE st0
      s2 == IF s1.exc = "none" /\ s1.data.points.height.update
            THEN [s1 EXCEPT
                    !.pcalls = Append(@, Call("SetVectorPointHeight", "points",
                                              id, {<< "points", "height" >>})),
                    !.data.points.height.update = FALSE]
            ELSE s1
      s3 == IF s2.exc = "none" /\ s2.data.points.mode.update
            THEN IF ~s2.data.points.mode.surface.present
                 THEN [s2 EXCEPT !.exc = "KeyError"]
                 ELSE SurfaceLoop(s2, "points", id, 1)
            ELSE s2
  IN  IF s3.exc = "none" /\ s3.data.points.mode.update
      THEN [s3 EXCEPT !.data.points.mode.update = FALSE]
      ELSE s3

UpdateVectorProperties(st, id, type, ret) ==
  IF type = "points" THEN UpdateVectorPointsProperties(st, id, ret)
  ELSE UpdateVectorLinesProperties(st, id)

SubOrder_PointsFirst == << "points", "lines" >>

\* for type in ('lines', 'points')
SubOrder == << "lines", "points" >>

RECURSIVE VectorLoop(_, _, _)
VectorLoop(st, i, ret) ==
  IF i > Len(SubOrder) \/ st.exc # "none" THEN st
  ELSE LET type == SubOrder[i] IN
       IF st.data[type].id = NoObj THEN VectorLoop(st, i + 1, ret)
       ELSE VectorLoop(UpdateVectorProperties(st, st.data[type].id, type, ret),
                       i + 1, ret)

\* UpdateMapObjProperties(event) on the record event.data
UpdateMapObjProperties(d, ret) ==
  LET st == [data |-> d, pcalls |-> <<>>, exc |-> "none"] IN
  CASE d.kind = "surface"  -> UpdateSurfaceProperties(st, d.id)
    [] d.kind = "constant" -> UpdateConstantProperties(st, d.id)
    [] d.kind = "volume"   -> UpdateVolumeProperties(st, d.id)
    [] d.kind = "vector"   -> VectorLoop(st, 1, ret)
    [] OTHER               -> st

\* ------------------------------------------------- property records
Attr(shape) == [shape |-> shape, update |-> FALSE]

\* what the attributes of a surface hold, in the order of SurfAttrs
SurfShapes ==
  { << "value", "value", "value", "value" >>,
    << "value", "unset", "unset", "unset" >>,
    << "empty", "absent", "value", "empty" >>,
    << "unset", "empty", "absent", "value" >> }

\* the draw mode of a surface record: the names and the code, which a
\* workspace file leaves at -1 and the default properties compute
SurfaceMode(mode, style, shading, value) ==
  [update |-> FALSE, value |-> value,
   desc |-> [mode |-> mode, style |-> style, shading |-> shading]]
SurfaceModeDefault == SurfaceMode("fine", "surface", "gouraud", -1)
SurfaceModes ==
  { SurfaceModeDefault,
    SurfaceMode("coarse", "wire", "flat", -1),
    SurfaceMode("both", "surface", "flat",
                GetDrawMode("both", "surface", "flat")) }

SurfaceRecord(id, shapes) ==
  [kind |-> "surface", id |-> id,
   attribute |-> [a \in Range(SurfAttrs) |->
                    Attr(shapes[CHOOSE i \in 1..Len(SurfAttrs) : SurfAttrs[i] = a])],
   draw |-> [all |-> FALSE, resolution |-> Clean,
             mode |-> SurfaceModeDefault, wire |-> Clean],
   position |-> Clean]

\* what the attributes of an isosurface hold, in the order of IsoAttrs
IsoShapes ==
  { << "value", "unset", "value", "empty", "unset" >>,
    << "unset", "value", "unset", "value", "absent" >> }

Isosurface(shapes) ==
  [a \in Range(IsoAttrs) |->
     Attr(shapes[CHOOSE i \in 1..Len(IsoAttrs) : IsoAttrs[i] = a])]

VolumeRecord(id, isosurface) ==
  [kind |-> "volume", id |-> id,
   draw |-> [resolution |-> Clean, shading |-> [update |-> FALSE, value |-> -1]],
   isosurface |-> isosurface]

\* the reference surfaces SetVectorSurface or the tool panel configured
Surface(value, show) == [present |-> TRUE, value |-> value, show |-> show]

VectorRecord(lid, pid, type, surface) ==
  [kind |-> "vector",
   lines |-> [id |-> lid, color |-> Clean, width |-> Clean, height |-> Clean,
              mode |-> [update |-> FALSE, type |-> type, surface |-> surface]],
   points |-> [id |-> pid, size |-> Clean, width |-> Clean, marker |-> Clean,
               color |-> Clean, height |-> Clean,
               mode |-> [update |-> FALSE, surface |-> surface]]]

ConstantRecord(id) == [kind |-> "constant", id |-> id]

\* the records the flush is run on: one loaded object of each kind
PropRecords ==
  {SurfaceRecord(id, sh) : id \in 1..MaxId, sh \in SurfShapes}
  \cup {[SurfaceRecord(1, << "value", "value", "value", "value" >>)
          EXCEPT !.draw.mode = m] : m \in SurfaceModes}
  \cup {VolumeRecord(MaxId, <<>>)}
  \cup {VolumeRecord(id, << Isosurface(sh) >>) : id \in 1..MaxId, sh \in IsoShapes}
  \cup {VectorRecord(lid, pid, type, Surface(value, << TRUE >>)) :
          lid \in {NoObj, 1}, pid \in {NoObj, MaxId},
          type \in {"flat", "surface"}, value \in {<< "a" >>}}
  \cup {ConstantRecord(id) : id \in 0..MaxId}

\* the update markers a record can carry
Paths(d) ==
  CASE d.kind = "surface" ->
         {<< "attribute", a >> : a \in {x \in Range(SurfAttrs) :
                                          d.attribute[x].shape # "absent"}}
         \cup {<< "draw", "resolution" >>, << "draw", "mode" >>,
               << "draw", "wire" >>, << "position" >>}
    [] d.kind = "volume" ->
         {<< "draw", "resolution" >>, << "draw", "shading" >>}
         \cup (IF d.isosurface = <<>> THEN {}
               ELSE {<< "isosurface", a >> : a \in {x \in Range(IsoAttrs) :
                                       d.isosurface[1][x].shape # "absent"}})
    [] d.kind = "vector" ->
         (IF d.lines.id = NoObj THEN {}
          ELSE {<< "lines", x >> : x \in {"color", "width", "mode", "height"}})
         \cup (IF d.points.id = NoObj THEN {}
               ELSE {<< "points", x >> : x \in Range(PointProps)
                                               \cup {"height", "mode"}})
    [] OTHER -> {}

IsDirty(d, p) ==
  IF Len(p) = 1 THEN d[p[1]].update
  ELSE IF p[1] = "isosurface" THEN d.isosurface[1][p[2]].update
  ELSE d[p[1]][p[2]].update

Mark(d, p) ==
  IF Len(p) = 1 THEN [d EXCEPT ![p[1]].update = TRUE]
  ELSE IF p[1] = "isosurface" THEN [d EXCEPT !.isosurface[1][p[2]].update = TRUE]
  ELSE [d EXCEPT ![p[1]][p[2]].update = TRUE]

DirtySet(d) == {p \in Paths(d) : IsDirty(d, p)}

\* the tool panel changes an attribute and sets its update marker
Touch ==
  \E p \in Paths(data) :
    /\ ~IsDirty(data, p)
    /\ Cardinality(DirtySet(data)) < MaxDirty
    /\ data' = Mark(data, p)
    /\ pcalls' = <<>>
    /\ arg' = "none"
    /\ op' = "Touch"
    /\ exc' = "none"
    /\ UNCHANGED << cplanes, engCP, view, iview >>
    /\ UNCHANGED layerVars
    /\ UNCHANGED sceneVars

\* the tool panel asks for the draw settings to go to all surfaces
ApplyToAll ==
  /\ data.kind = "surface"
  /\ ~data.draw.all
  /\ data' = [data EXCEPT !.draw.all = TRUE]
  /\ pcalls' = <<>>
  /\ arg' = "none"
  /\ op' = "ApplyToAll"
  /\ exc' = "none"
  /\ UNCHANGED << cplanes, engCP, view, iview >>
  /\ UNCHANGED layerVars
  /\ UNCHANGED sceneVars

\* the handler of EVT_UPDATE_PROP; arg keeps the record as the event gave it
Flush ==
  \E ret \in PointModeRet :
    LET s1 == UpdateMapObjProperties(data, ret)
    IN  /\ data.kind # "none"
        /\ data' = s1.data
        /\ pcalls' = s1.pcalls
        /\ exc' = s1.exc
        /\ arg' = data
        /\ op' = "UpdateMapObjProperties"
        /\ UNCHANGED << cplanes, engCP, view, iview >>
        /\ UNCHANGED layerVars
        /\ UNCHANGED sceneVars

\* the property store of one loaded object
InitProp == InitRegistry(ConstTrees) /\ InitPropsWith(PropRecords) /\ InitScene
NextProp == Touch \/ ApplyToAll \/ Flush
SpecProp == InitProp /\ [][NextProp]_vars

\* ------------------------------------- reference surfaces of a layer
\* the names a reference surface list can hold: the raster of the tree, a
\* map that is not in the tree, a constant, the empty name
RefNames == {"", "a", "b", "constant#1"}
RefLists == {<< n >> : n \in RefNames \ {""}} \cup {<< "b", "a" >>}

\* the vector item of the tree and its property record with the 'object'
\* records of the item
VectorItem == CHOOSE n \in Items : Type(n) = "vector"
RecordOf(item, d) ==
  [d EXCEPT !.lines.id = obj[item]["lines"], !.points.id = obj[item]["points"]]

\* the tool panel configures the reference surfaces of the vector and
\* marks its mode as changed
SetRefs ==
  \E value \in RefLists, show \in BOOLEAN :
    LET surface == Surface(value, [i \in 1..Len(value) |-> show])
        sub == IF T.nlines[VectorItem] > 0 THEN "lines" ELSE "points"
    IN  /\ VectorItem \in Range(layers)
        /\ data' = [data EXCEPT ![sub].mode.surface = surface,
                                ![sub].mode.update = TRUE]
        /\ pcalls' = <<>>
        /\ arg' = "none"
        /\ op' = "SetRefs"
        /\ exc' = "none"
        /\ UNCHANGED << cplanes, engCP, view, iview >>
        /\ UNCHANGED layerVars
        /\ UNCHANGED sceneVars

\* the handler of EVT_UPDATE_PROP on the record of the vector item
FlushLayer ==
  \E ret \in PointModeRet :
    LET d0 == RecordOf(VectorItem, data)
        s1 == UpdateMapObjProperties(d0, ret)
    IN  /\ VectorItem \in Range(layers)
        /\ data' = [s1.data EXCEPT !.lines.id = NoObj, !.points.id = NoObj]
        /\ pcalls' = s1.pcalls
        /\ exc' = s1.exc
        /\ arg' = d0
        /\ op' = "FlushLayer"
        /\ UNCHANGED << cplanes, engCP, view, iview >>
        /\ UNCHANGED layerVars
        /\ UNCHANGED sceneVars

\* the layers are checked and the scene painted for the first time
FirstChecks == ~initView /\ ToggleCheck
FirstPaint == ~initView /\ DoPaint

\* a vector draped on the rasters of the first paint and on the constants
InitRef ==
  /\ InitRegistry(RefTrees)
  /\ InitPropsWith({VectorRecord(NoObj, NoObj, "surface", Surface(<<>>, <<>>))})
  /\ InitScene
NextRef == FirstChecks \/ FirstPaint \/ NewConstant \/ SetRefs \/ FlushLayer
SpecRef == InitRef /\ [][NextRef]_vars

\* ------------------------------------------------------------------- view
\* the engine's focus point after LookHere or LookAtCenter: any point
Focus == [x : Coord, y : Coord, z : Coord]
ViewEvents == {"None", "zExag", "noZExag"}

Has(cs, o) == \E i \in 1..Len(cs) : cs[i].op = o

\* the calls of UpdateView(event): SetView, SetZExag when the event asks for
\* it and view['z-exag'] holds a value, SetFocus by the test on focus['x']
UpdateViewCalls(event, v, iv) ==
  << [op |-> "SetView", id |-> 0, arg |-> <<>>] >>
  \o (IF event = "zExag" /\ v.zexag
      THEN << [op |-> "SetZExag", id |-> 0, arg |-> <<>>] >> ELSE <<>>)
  \o (IF iv.focus.x # -1
      THEN << [op |-> "SetFocus", id |-> 0,
               arg |-> << iv.focus.x, iv.focus.y, iv.focus.z >>] >>
      ELSE <<>>)

UpdateView ==
  \E event \in ViewEvents :
    /\ pcalls' = UpdateViewCalls(event, view, iview)
    /\ arg' = event
    /\ op' = "UpdateView"
    /\ exc' = "none"
    /\ UNCHANGED << data, cplanes, engCP, view, iview >>
    /\ UNCHANGED layerVars
    /\ UNCHANGED sceneVars

\* OnMouseAction, left button down in 'lookHere' mode: the engine looks at
\* the clicked point and the focus is read back from it
LookHere ==
  \E f \in Focus :
    /\ iview' = [iview EXCEPT !.focus = f]
    /\ pcalls' = << [op |-> "LookHere", id |-> 0, arg |-> <<>>],
                    [op |-> "GetFocus", id |-> 0, arg |-> <<>>] >>
    /\ arg' = "LeftDown"
    /\ op' = "LookHere"
    /\ exc' = "none"
    /\ UNCHANGED << data, cplanes, engCP, view >>
    /\ UNCHANGED layerVars
    /\ UNCHANGED sceneVars

\* ResetView: the engine's defaults give view['z-exag'] its value, the
\* camera is centred and the focus read back; the wxUpdateView event it
\* posts is handled later, by UpdateView
ResetView ==
  \E def \in EngineViews, f \in Focus :
    LET rv == ResetViewOn(view, iview, def, f) IN
    /\ view' = rv.view
    /\ iview' = rv.iview
    /\ pcalls' = rv.pcalls
    /\ arg' = [def |-> def, focus |-> f]
    /\ op' = "ResetView"
    /\ exc' = "none"
    /\ UNCHANGED << data, cplanes, engCP >>
    /\ UNCHANGED layerVars
    /\ UNCHANGED sceneVars

\* the view page of the tool window stores a position, perspective or twist
PanelViews == [x : {0, UserView.x}, persp : {UserView.persp, 50},
               twist : {UserView.twist, 5}]
ViewPanel ==
  \E v \in PanelViews :
    /\ view' = [view EXCEPT !.x = v.x, !.persp = v.persp, !.twist = v.twist]
    /\ pcalls' = <<>>
    /\ arg' = "none"
    /\ op' = "ViewPanel"
    /\ exc' = "none"
    /\ UNCHANGED << data, cplanes, engCP, iview >>
    /\ UNCHANGED layerVars
    /\ UNCHANGED sceneVars

\* the preferences store another perspective step, before the scene is
\* painted for the first time
StepPanel ==
  \E step \in Steps :
    /\ ~initView
    /\ view' = [view EXCEPT !.step = step]
    /\ pcalls' = <<>>
    /\ arg' = "none"
    /\ op' = "StepPanel"
    /\ exc' = "none"
    /\ UNCHANGED << data, cplanes, engCP, iview >>
    /\ UNCHANGED layerVars
    /\ UNCHANGED sceneVars

\* the view beside an empty scene
InitOnView == InitOn(ConstTrees)
NextView == UpdateView \/ LookHere \/ ResetView \/ ViewPanel
SpecView == InitOnView /\ [][NextView]_vars

\* two rasters are painted while the view page changes the view
InitPaint == InitRegistry({1}) /\ InitProps /\ InitScene
NextPaint == ToggleCheck \/ DoPaint \/ Reset \/ ViewPanel
SpecPaint == InitPaint /\ [][NextPaint]_vars

\* ------------------------------------------------------------ mouse wheel
PerspMin == 1
PerspMax == 100

Clamp_Upper(value) == IF value > PerspMax THEN PerspMax ELSE value

\* the perspective value after the two range tests
Clamp(value) ==
  IF value < PerspMin THEN PerspMin
  ELSE IF value > PerspMax THEN PerspMax ELSE value

Changed_Always(prev_value, value) == TRUE

\* prev_value != self.view['persp']['value']
Changed(prev_value, value) == prev_value # value

\* OnMouseAction for a wheel rotation: the perspective is moved by the step
\* and clamped; if it changed, SetView is called when the tool window is
\* there, and the scene is painted (arg: the wheel, the clamped value and
\* whether DoPaint ran)
OnMouseWheel ==
  \E wheel \in {-1, 1}, toolWin \in BOOLEAN,
     ld \in [LoadSlots -> LoadAns], ul \in [UnloadSlots -> UnloadRet] :
    LET prev_value == view.persp
        value == IF wheel > 0 THEN -1 * view.step ELSE view.step
        v1 == [view EXCEPT !.persp = Clamp(@ + value)]
        changed == Changed(prev_value, v1.persp)
        setView == IF changed /\ toolWin
                   THEN << [op |-> "SetView", id |-> 0,
                            arg |-> << v1.x, v1.y, iview.height.value,
                                       v1.persp, v1.twist >>] >>
                   ELSE <<>>
        painted == IF changed
                   THEN DoPaintOn(Start, v1, iview, ld, ul, PaintView, PaintFocus)
                   ELSE [st |-> Start, view |-> v1, iview |-> iview,
                         pcalls |-> <<>>]
    IN  \E p \in {painted} :
        LET s3 == p.st IN
        /\ s3.valid
        /\ initView' = (initView \/ changed)
        /\ layers' = s3.layers
        /\ obj' = s3.obj
        /\ eng' = s3.eng
        /\ engConst' = s3.engConst
        /\ askConst' = s3.askConst
        /\ nviz' = s3.nviz
        /\ init' = s3.init
        /\ op' = "OnMouseWheel"
        /\ exc' = s3.exc
        /\ calls' = s3.calls
        /\ att' = s3.att
        /\ view' = p.view
        /\ iview' = p.iview
        /\ pcalls' = setView \o p.pcalls
        /\ arg' = [wheel |-> wheel, value |-> v1.persp, painted |-> changed]
        /\ UNCHANGED << tree, checked, constants >>
        /\ UNCHANGED << data, cplanes, engCP >>
        /\ UNCHANGED << qpoints, log, ui, cmd, nvizThread, display, pc >>

\* the wheel over a scene of one raster, for every step of the preferences
InitWheel ==
  /\ InitRegistry(ConstTrees)
  /\ InitPropsWith({NoData})
  /\ InitScene
NextWheel == OnMouseWheel \/ ToggleCheck \/ Reset \/ StepPanel
SpecWheel == InitWheel /\ [][NextWheel]_vars

\* ------------------------------------------------------ Nviz_cmd_command
\* str.strip(chars): leading and trailing pieces in chars are dropped
RECURSIVE LStrip(_, _)
LStrip(str, chars) ==
  IF str # <<>> /\ Head(str) \in chars THEN LStrip(Tail(str), chars) ELSE str
RECURSIVE RStrip(_, _)
RStrip(str, chars) ==
  IF str # <<>> /\ str[Len(str)] \in chars
  THEN RStrip(SubSeq(str, 1, Len(str) - 1), chars) ELSE str
Strip(str, chars) == RStrip(LStrip(str, chars), chars)

\* str.split(sep): the list of the parts between the separators
RECURSIVE Split(_, _)
Split(str, sep) ==
  IF \A i \in 1..Len(str) : str[i] # sep THEN << str >>
  ELSE LET k == CHOOSE i \in 1..Len(str) :
                  str[i] = sep /\ \A j \in 1..(i - 1) : str[j] # sep
       IN  << SubSeq(str, 1, k - 1) >> \o Split(SubSeq(str, k + 1, Len(str)), sep)

\* 'word' in str
In(word, str) == \E i \in 1..Len(str) : str[i] = word

\* "%d" and "%s" of a whole number; "%.2f" of a number held in hundredths
Fmt(v) == << ToString(v) >>
Fmt2(v) == << ToString(v \div 100), ".", ToString((v % 100) \div 10),
              ToString(v % 10) >>

\* subcmd += "%s," % value, for each value of a list
RECURSIVE Listed(_)
Listed(values) ==
  IF values = <<>> THEN <<>>
  ELSE Head(values) \o << "," >> \o Listed(Tail(values))

Key(name) == << name, "=" >>
Blank == << " " >>
\* subcmd.strip(', ') + ' '
Clause(subcmd) == Strip(subcmd, {",", " "}) \o Blank

\* the rasters of self.layers, in the order of the list
Rasters(ls) == SelectSeq(ls, LAMBDA item : Type(item) = "raster")
Map(f(_), seq) == [i \in 1..Len(seq) |-> f(seq[i])]

NoScene_Never(rasters, cs) == FALSE

\* not rasters and not self.constants
NoScene(rasters, cs) == rasters = <<>> /\ cs = <<>>
NoSceneMessage == << "At least one raster map required" >>

CmdName_Numbered == IF cmd = "none" THEN << "nviz_cmd", " " >>
                    ELSE << "nviz_cmd", "2", " " >>

\* cmd = 'nviz_cmd '
CmdName == << "nviz_cmd", " " >>

\* the -a test: every raster's draw dictionary equals the first one's
SameDraw(rasters, nv) ==
  \A i \in 1..Len(rasters) : nv[rasters[1]].draw = nv[rasters[i]].draw

DrawList_ConstantsFirst(name, rvalues, cvalues) ==
  Key(name) \o Listed(cvalues) \o Listed(rvalues)

\* a draw list: the key, an entry per raster, then an entry per constant
DrawList(name, rvalues, cvalues) ==
  Key(name) \o Listed(rvalues) \o Listed(cvalues)

\* the six draw lists, in the order they are written
DrawLists(rasters, cs, nv) ==
  LET D(item) == nv[item].draw
      mode(item) == D(item).mode.desc.mode
      fine(item) == Fmt(D(item).resolution.fine)
      coarse(item) == Fmt(D(item).resolution.coarse)
      shading(item) == D(item).mode.desc.shading
      style(item) == D(item).mode.desc.style
      wire(item) == D(item).wire.value
      cfine(c) == << "fine" >>
      cres(c) == Fmt(c.resolution)
      cgouraud(c) == << "gouraud" >>
      csurface(c) == << "surface" >>
      cblack(c) == << "0:0:0" >>
  IN  << DrawList("mode", Map(mode, rasters), Map(cfine, cs)),
         DrawList("resolution_fine", Map(fine, rasters), Map(cres, cs)),
         DrawList("resolution_coarse", Map(coarse, rasters), Map(cres, cs)),
         DrawList("shading", Map(shading, rasters), Map(cgouraud, cs)),
         DrawList("style", Map(style, rasters), Map(csurface, cs)),
         DrawList("wire_color", Map(wire, rasters), Map(cblack, cs)) >>

RECURSIVE Concat(_)
Concat(strs) == IF strs = <<>> THEN <<>> ELSE Head(strs) \o Concat(Tail(strs))

WireColorNeeded_Style(mode) ==
  In("coarse", mode[1]) \/ (In("both", mode[1]) /\ In("wire", mode[5]))

\* 'coarse' in mode[0] or 'both' in mode[0] and 'wire' in mode[3]
WireColorNeeded(mode) ==
  In("coarse", mode[1]) \/ (In("both", mode[1]) /\ In("wire", mode[4]))

Compact_All(mode) == Concat(mode)

\* the -a form: 'write only meaningful possibilities' (mode is 0-based in
\* the code, 1-based here)
Compact(mode) ==
  mode[1]
  \o (IF In("fine", mode[1]) THEN mode[2]
      ELSE IF In("coarse", mode[1]) THEN mode[3]
      ELSE IF In("both", mode[1]) THEN mode[3] \o mode[2]
      ELSE <<>>)
  \o (IF In("flat", mode[4]) THEN mode[4] ELSE <<>>)
  \o (IF In("wire", mode[5]) THEN mode[5] ELSE <<>>)
  \o (IF WireColorNeeded(mode) THEN mode[6] ELSE <<>>)

\* the draw mode part
DrawMode(rasters, cs, nv) ==
  LET lists == DrawLists(rasters, cs, nv)
      first(subcmd) == Split(subcmd, ",")[1] \o Blank
  IN  IF SameDraw(rasters, nv)
      THEN << "-a", " " >> \o Compact(Map(first, lists))
      ELSE Concat(Map(Clause, lists))

\* the colour attributes: a raster without a colour or with a mapped one
\* goes to color_map, one with a literal colour to color, as the constants
ColorAttributes(rasters, cs, nv) ==
  LET mapped(item) ==
        IF ~nv[item].color.present THEN << T.name[item], "," >>
        ELSE IF nv[item].color.map THEN nv[item].color.value \o << "," >>
        ELSE <<>>
      literal(item) ==
        IF nv[item].color.present /\ ~nv[item].color.map
        THEN nv[item].color.value \o << "," >> ELSE <<>>
      ccolor(c) == c.color \o << "," >>
      cmdColorMap == Key("color_map") \o Concat(Map(mapped, rasters))
      cmdColorVal == Key("color") \o Concat(Map(literal, rasters))
                       \o Concat(Map(ccolor, cs))
  IN  (IF Split(cmdColorMap, "=")[2] # <<>> THEN Clause(cmdColorMap) ELSE <<>>)
      \o (IF Split(cmdColorVal, "=")[2] # <<>> THEN Clause(cmdColorVal) ELSE <<>>)

\* elevation_value and elevation_map
Elevation(rasters, cs) ==
  LET value(c) == Fmt(c.value)
      name(item) == << T.name[item] >>
  IN  (IF cs # <<>>
       THEN Clause(Key("elevation_value") \o Listed(Map(value, cs))) ELSE <<>>)
      \o (IF rasters # <<>>
          THEN Clause(Key("elevation_map") \o Listed(Map(name, rasters)))
          ELSE <<>>)

\* viewpoint, background, light, fringe and output
Viewpoint(v, iv) ==
  Key("position") \o Fmt2(v.x) \o << "," >> \o Fmt2(v.y) \o Blank
  \o Key("height") \o Fmt(iv.height.value) \o Blank
  \o Key("perspective") \o Fmt(v.persp) \o Blank
  \o Key("twist") \o Fmt(v.twist) \o Blank
  \o Key("zexag") \o Fmt(v.zvalue) \o Blank
  \o Key("focus") \o Fmt(iv.focus.x) \o << "," >> \o Fmt(iv.focus.y)
     \o << "," >> \o Fmt(iv.focus.z) \o Blank
Background(v) ==
  IF v.bg # "white" THEN Key("bgcolor") \o << v.bg >> \o Blank ELSE <<>>
Light(u) ==
  Key("light_position") \o Fmt2(u.light.x) \o << "," >> \o Fmt2(u.light.y)
     \o << "," >> \o Fmt2(u.light.z) \o Blank
  \o Key("light_brightness") \o Fmt(u.light.bright) \o Blank
  \o Key("light_ambient") \o Fmt(u.light.ambient) \o Blank
  \o Key("light_color") \o << u.light.color >> \o Blank
FringeOrder == << "nw", "ne", "sw", "se" >>
Fringe(u) ==
  LET dir(d) == IF d \in u.fringe THEN << d, "," >> ELSE <<>>
      direction == Concat(Map(dir, FringeOrder))
  IN  IF direction # <<>>
      THEN Key("fringe") \o Strip(direction, {","}) \o Blank
           \o Key("fringe_color") \o << u.fcolor >> \o Blank
           \o Key("fringe_elevation") \o Fmt(u.felev) \o Blank
      ELSE <<>>
Output(u) ==
  Key("output") \o << "nviz_output" >> \o Blank
  \o Key("format") \o << "ppm" >> \o Blank
  \o Key("size") \o Fmt(u.size) \o << "," >> \o Fmt(u.size) \o Blank

\* the string Nviz_cmd_command returns for the layers ls, the constants cs,
\* the surface data nv, the view v and iv, the controls u
Nviz_cmd_command(ls, cs, nv, v, iv, u) ==
  LET rasters == Rasters(ls)
  IN  IF NoScene(rasters, cs) THEN NoSceneMessage
      ELSE CmdName
           \o Elevation(rasters, cs)
           \o (IF rasters # <<>>
               THEN DrawMode(rasters, cs, nv) \o ColorAttributes(rasters, cs, nv)
               ELSE <<>>)
           \o Viewpoint(v, iv) \o Background(v) \o Light(u) \o Fringe(u)
           \o Output(u)

\* the surface data a workspace file gives a raster
SurfacePresets ==
  { SurfaceData(<< "coarse" >>, << "flat" >>, << "wire" >>, 3, 9,
                << "0:0:0" >>, Color(TRUE, << "c" >>)),
    SurfaceData(<< "both" >>, << "gouraud" >>, << "wire" >>, 6, 9,
                <<>>, Color(FALSE, << "1:2:3" >>)) }
UiFringe == [UiDefault EXCEPT !.fringe = {"ne", "sw"}, !.size = 640]

\* UpdateSurfaceProperties on the data of a loaded raster: the draw entries
\* are pushed and their markers dropped, the 'all' flag is cleared
FlushDraw ==
  \E item \in Range(layers) :
    LET d == nviz[item].draw
        id == obj[item]["surface"]
        push(o, update) == IF update
                           THEN << [op |-> o, id |-> Target(d.all, id),
                                    arg |-> <<>>] >> ELSE <<>>
    IN  /\ Type(item) = "raster"
        /\ id # NoObj
        /\ d.mode.update \/ d.resolution.update \/ d.wire.update
        /\ nviz' = [nviz EXCEPT ![item].draw.resolution.update = FALSE,
                                ![item].draw.mode.update = FALSE,
                                ![item].draw.wire.update = FALSE,
                                ![item].draw.all = FALSE]
        /\ pcalls' = push("SetSurfaceRes", d.resolution.update)
                      \o push("SetSurfaceStyle", d.mode.update)
                      \o push("SetWireColor", d.wire.update)
        /\ arg' = item
        /\ op' = "FlushDraw"
        /\ exc' = "none"
        /\ UNCHANGED << data, cplanes, engCP, view, iview >>
        /\ UNCHANGED layerVars
        /\ UNCHANGED << qpoints, log, ui, cmd, nvizThread, display, pc >>

\* the handler of the command button: the string is handed to the caller
\* (arg: the state the call found)
NvizCmd ==
  /\ cmd' = Nviz_cmd_command(layers, constants, nviz, view, iview, ui)
  /\ pcalls' = <<>>
  /\ arg' = [layers |-> layers, constants |-> constants, nviz |-> nviz,
             view |-> view, iview |-> iview, ui |-> ui]
  /\ op' = "Nviz_cmd_command"
  /\ exc' = "none"
  /\ UNCHANGED << data, cplanes, engCP, view, iview >>
  /\ UNCHANGED layerVars
  /\ UNCHANGED << qpoints, log, nviz, ui, nvizThread, display, pc >>

\* a workspace file gives a raster its surface data, before the first paint
WorkspaceData ==
  \E item \in Items, d \in SurfacePresets :
    /\ ~initView
    /\ Type(item) = "raster"
    /\ nviz[item] = NoNviz
    /\ nviz' = [nviz EXCEPT ![item] = d]
    /\ pcalls' = <<>>
    /\ arg' = item
    /\ op' = "WorkspaceData"
    /\ exc' = "none"
    /\ UNCHANGED << data, cplanes, engCP, view, iview >>
    /\ UNCHANGED layerVars
    /\ UNCHANGED << qpoints, log, ui, cmd, nvizThread, display, pc >>

\* the scene is built until the command is asked for
Compose ==
  /\ cmd = "none"
  /\ WorkspaceData \/ FirstChecks \/ FirstPaint \/ NewConstant \/ FlushDraw

\* two rasters with or without workspace data, constants, fringe controls
InitCmd ==
  /\ InitRegistry({1})
  /\ InitProps
  /\ qpoints = <<>>
  /\ log = <<>>
  /\ ui \in {UiDefault, UiFringe}
  /\ cmd = "none"
  /\ nvizThread = Built
  /\ display = "engine"
  /\ pc = "constructed"
NextCmd == Compose \/ NvizCmd
SpecCmd == InitCmd /\ [][NextCmd]_vars

\* ---------------------------------------------------------- surface query
\* what QueryMap returns: None, or the surface id and point that was hit
QCoord == 0..1
NoResult == [hit |-> FALSE, id |-> 0, x |-> 0, y |-> 0, z |-> 0]
QueryResults ==
  {NoResult} \cup [hit : {TRUE}, id : {1}, x : QCoord, y : {0}, z : QCoord]

Prev_First(qs) == qs[1]

\* prev = self.qpoints[-2], curr = self.qpoints[-1]
Prev(qs) == qs[Len(qs) - 1]
Curr(qs) == qs[Len(qs)]

\* the sums under the roots of the two distances
Sq(v) == v * v
Dxy(prev, curr) == Sq(prev[1] - curr[1]) + Sq(prev[2] - curr[2])
Dxyz(prev, curr) == Dxy(prev, curr) + Sq(prev[3] - curr[3])

\* OnQuerySurface: a hit appends its point, logs it and, from the second
\* point on, the distances from the point before it; a miss logs a message
OnQuerySurface ==
  \E result \in QueryResults :
    LET qs == IF result.hit
              THEN Append(qpoints, << result.x, result.y, result.z >>)
              ELSE qpoints
        point == << [line |-> "Easting", v |-> result.x],
                    [line |-> "Northing", v |-> result.y],
                    [line |-> "Elevation", v |-> result.z] >>
        dist == IF Len(qs) > 1
                THEN << [line |-> "XY distance from previous",
                         prev |-> Prev(qs), curr |-> Curr(qs),
                         v |-> Dxy(Prev(qs), Curr(qs))],
                        [line |-> "XYZ distance from previous",
                         prev |-> Prev(qs), curr |-> Curr(qs),
                         v |-> Dxyz(Prev(qs), Curr(qs))] >>
                ELSE <<>>
        along == IF Len(qs) > 1
                 THEN << [op |-> "GetDistanceAlongSurface", id |-> result.id,
                          arg |-> << Curr(qs), Prev(qs), FALSE >>],
                         [op |-> "GetDistanceAlongSurface", id |-> result.id,
                          arg |-> << Curr(qs), Prev(qs), TRUE >>] >>
                 ELSE <<>>
    IN  /\ result.hit => Len(qpoints) < MaxQPoints
        /\ qpoints' = qs
        /\ log' = IF result.hit THEN point \o dist
                  ELSE << [line |-> "No point on surface", v |-> 0] >>
        /\ pcalls' = << [op |-> "QueryMap", id |-> 0, arg |-> <<>>] >>
                      \o (IF result.hit THEN along ELSE <<>>)
        /\ arg' = result
        /\ op' = "OnQuerySurface"
        /\ exc' = "none"
        /\ UNCHANGED << data, cplanes, engCP, view, iview >>
        /\ UNCHANGED layerVars
        /\ UNCHANGED << nviz, ui, cmd, nvizThread, display, pc >>

\* the surface of one raster is queried while it is loaded, unloaded, reset
InitQuery == InitOn(ConstTrees)
NextQuery == OnQuerySurface \/ ToggleCheck \/ DoPaint \/ Reset
SpecQuery == InitQuery /\ [][NextQuery]_vars

\* ---------------------------------------------------------- cutting planes
\* GetCPlanesCount(): the engine's fixed number of cutting planes, 0-based
Planes == 0..(MaxCPlanes - 1)
Val == 0..1
Fields == {"rotation", "position", "shading"}
\* UserSettings.Get(group = 'nviz', key = 'cplane')
DefaultCPlane ==
  [rotation |-> [tilt |-> 0, rot |-> 0],
   position |-> [x |-> 0, y |-> 0, z |-> 0],
   shading  |-> 0]

\* what the tool panel writes into a field of a plane record
FieldValue(f, v) ==
  CASE f = "rotation" -> [tilt |-> v, rot |-> v]
    [] f = "position" -> [x |-> v, y |-> v, z |-> v]
    [] OTHER          -> v

\* event.update: a list of changed fields, here in the order of FieldOrder
FieldOrder == << "rotation", "position", "shading" >>
Updates ==
  {SelectSeq(FieldOrder, LAMBDA f : f \in fs) : fs \in SUBSET Fields}

\* InitCPlanes: one record per engine plane, copied from the settings
InitCPlanes ==
  /\ pc = "constructed"
  /\ cplanes = <<>>
  /\ op # "InitCPlanes"
  /\ IF display = "None"
     THEN \* None has no GetCPlanesCount
          /\ cplanes' = cplanes
          /\ pcalls' = <<>>
          /\ exc' = "AttributeError"
     ELSE /\ cplanes' = [i \in 1..MaxCPlanes |-> DefaultCPlane]
          /\ pcalls' = << [op |-> "GetCPlanesCount", id |-> 0, arg |-> <<>>] >>
          /\ exc' = "none"
  /\ arg' = "none"
  /\ op' = "InitCPlanes"
  /\ UNCHANGED << data, engCP, view, iview >>
  /\ UNCHANGED layerVars
  /\ UNCHANGED sceneVars

\* the tool panel edits a field of a stored plane record
EditCPlane ==
  \E current \in Planes, f \in Fields, v \in Val :
    /\ current < Len(cplanes)
    /\ cplanes' = [cplanes EXCEPT ![current + 1][f] = FieldValue(f, v)]
    /\ pcalls' = <<>>
    /\ arg' = "none"
    /\ op' = "EditCPlane"
    /\ exc' = "none"
    /\ UNCHANGED << data, engCP, view, iview >>
    /\ UNCHANGED layerVars
    /\ UNCHANGED sceneVars

SelectPlane_KeepOthers(sel, plane, index) ==
  IF plane = index THEN sel \cup {plane} ELSE sel

\* one turn of SelectCPlane's loop: the engine selects or unselects plane
SelectPlane(sel, plane, index) ==
  IF plane = index THEN sel \cup {plane} ELSE sel \ {plane}

RECURSIVE SelectLoop(_, _, _)
SelectLoop(st, plane, index) ==
  IF plane >= MaxCPlanes THEN st
  ELSE SelectLoop(
         [st EXCEPT !.sel = SelectPlane(@, plane, index),
                    !.pcalls = Append(@,
                       [op  |-> IF plane = index THEN "SelectCPlane"
                                ELSE "UnselectCPlane",
                        id  |-> plane, arg |-> <<>>])],
         plane + 1, index)

\* SelectCPlane(index); an index that is no plane's unselects them all
SelectCPlane ==
  \E index \in (Planes \cup {-1, MaxCPlanes}) :
    LET s1 == SelectLoop([sel |-> engCP.sel, pcalls |-> <<>>], 0, index)
    IN  /\ engCP' = [engCP EXCEPT !.sel = s1.sel]
        /\ pcalls' = s1.pcalls
        /\ arg' = [index |-> index]
        /\ op' = "SelectCPlane"
        /\ exc' = "none"
        /\ UNCHANGED << data, cplanes, view, iview >>
        /\ UNCHANGED layerVars
        /\ UNCHANGED sceneVars

CPlaneAt_First(cps, current) == cps[1]

\* self.cplanes[current]
CPlaneAt(cps, current) == cps[current + 1]

\* the engine call UpdateCPlane issues for a field of plane record pl
CPlaneCall(each, pl) ==
  CASE each = "rotation" ->
         [op |-> "SetCPlaneRotation", id |-> 0,
          arg |-> << 0, pl.rotation.tilt, pl.rotation.rot >>]
    [] each = "position" ->
         [op |-> "SetCPlaneTranslation", id |-> 0,
          arg |-> << pl.position.x, pl.position.y, pl.position.z >>]
    [] OTHER ->
         [op |-> "SetFenceColor", id |-> 0, arg |-> << pl.shading >>]

RECURSIVE UpdateCPlaneLoop(_, _, _, _)
UpdateCPlaneLoop(st, update, i, current) ==
  IF i > Len(update) THEN st
  ELSE LET c == CPlaneCall(update[i], CPlaneAt(cplanes, current))
       IN  UpdateCPlaneLoop(
             [st EXCEPT !.pcalls = Append(@, c)],
             update, i + 1, current)

\* UpdateCPlane(event), event.current a stored plane
UpdateCPlane ==
  \E current \in Planes, update \in Updates :
    /\ current < Len(cplanes)
    /\ pcalls' = UpdateCPlaneLoop([pcalls |-> <<>>], update, 1, current).pcalls
    /\ arg' = [current |-> current, update |-> update]
    /\ op' = "UpdateCPlane"
    /\ exc' = "none"
    /\ UNCHANGED << data, cplanes, engCP, view, iview >>
    /\ UNCHANGED layerVars
    /\ UNCHANGED sceneVars

\* the cutting planes beside an empty scene
InitOnCPlane == InitOn(ConstTrees)
NextCPlane == InitCPlanes \/ EditCPlane \/ SelectCPlane \/ UpdateCPlane
SpecCPlane == InitOnCPlane /\ [][NextCPlane]_vars

\* ------------------------------------------------- engine construction
\* before the constructor creates the worker: no thread, no display
Unbuilt == [pc |-> "idle", display |-> "None"]

\* __init__ up to the sleep: the worker is created and started
StartThread ==
  /\ pc = "new"
  /\ pc' = "sleeping"
  /\ nvizThread' = [nvizThread EXCEPT !.pc = "started"]
  /\ op' = "StartThread"
  /\ UNCHANGED << exc, pcalls, arg, display, qpoints, log, nviz, ui, cmd >>
  /\ UNCHANGED << data, cplanes, engCP, view, iview >>
  /\ UNCHANGED << tree, checked, layers, obj, constants, eng, engConst,
                  askConst, init, initView, calls, att >>

\* NvizThread.run: the engine is built and stored in the thread
Run ==
  /\ nvizThread.pc = "started"
  /\ nvizThread' = [pc |-> "finished", display |-> "engine"]
  /\ op' = "Run"
  /\ UNCHANGED << exc, pcalls, arg, display, pc, qpoints, log, nviz, ui, cmd >>
  /\ UNCHANGED << data, cplanes, engCP, view, iview >>
  /\ UNCHANGED << tree, checked, layers, obj, constants, eng, engConst,
                  askConst, init, initView, calls, att >>

\* NvizThread.GetDisplay: what the thread holds at that moment
GetDisplay(thread) == thread.display

\* __init__ from the end of the sleep: the display is fetched from the
\* thread, the rest of the constructor runs, InitCPlanes is left pending
Wake ==
  /\ pc = "sleeping"
  /\ pc' = "constructed"
  /\ display' = GetDisplay(nvizThread)
  /\ op' = "Wake"
  /\ UNCHANGED << exc, pcalls, arg, nvizThread, qpoints, log, nviz, ui, cmd >>
  /\ UNCHANGED << data, cplanes, engCP, view, iview >>
  /\ UNCHANGED << tree, checked, layers, obj, constants, eng, engConst,
                  askConst, init, initView, calls, att >>

\* the handlers of the cutting planes, once the planes are there
PlaneHandlers ==
  /\ pc = "constructed"
  /\ cplanes # <<>>
  /\ EditCPlane \/ SelectCPlane \/ UpdateCPlane

\* the window from the start of its constructor
InitBoot ==
  /\ InitRegistry(ConstTrees)
  /\ InitProps
  /\ qpoints = <<>>
  /\ log = <<>>
  /\ ui = UiDefault
  /\ cmd = "none"
  /\ nvizThread = Unbuilt
  /\ display = "None"
  /\ pc = "new"
NextBoot == StartThread \/ Run \/ Wake \/ InitCPlanes \/ PlaneHandlers
SpecBoot == InitBoot /\ [][NextBoot]_vars


\* ------------------------------------------------------------------ claims
\* what the handler that ran last asked of the engine
Called(cs, o, n, s) ==
  \E i \in 1..Len(cs) : cs[i].op = o /\ cs[i].node = n /\ cs[i].kind = s

CalledId(cs, o, n, s, id) ==
  \E i \in 1..Len(cs) :
     cs[i].op = o /\ cs[i].node = n /\ cs[i].kind = s /\ cs[i].id = id

HasObject(n) == \E s \in Sub : obj[n][s] # NoObj

InSnapshot(n) == n \in Range(Snapshot.litems)

IdsOf(cs) == [i \in 1..Len(cs) |-> cs[i].id]

\* C1: after a pass (LoadDataLayers, UnloadDataLayers) that returned, every
\* item that was loaded before it (in self.layers, holding an 'object'
\* record) and is not in the snapshot has had the unload call of each of its
\* object ids issued and is not in self.layers.
C1_UnloadsAbsent ==
  [][ (op' = "DoPaint" /\ exc' = "none") =>
        \A n \in Range(layers) :
           (HasObject(n) /\ ~InSnapshot(n)) =>
              /\ n \notin Range(layers')
              /\ \A s \in Sub : obj[n][s] # NoObj =>
                    CalledId(calls', "Unload", n, s, obj[n][s]) ]_vars

\* C2: a pass that follows a pass that returned, with nothing done in
\* between, issues no engine load or unload call and leaves self.layers as
\* it was.
C2_Idempotent ==
  [][ (op = "DoPaint" /\ exc = "none" /\ op' = "DoPaint") =>
        (calls' = <<>> /\ layers' = layers) ]_vars

\* C3: a tree item is in self.layers if and only if its properties hold at
\* least one 'object' record.
C3_LoadedIffObject ==
  \A n \in Node : (n \in Range(layers)) <=> HasObject(n)

\* C4: every unload call a handler issues for the object of a tree item, a
\* surface, a volume, the points or the lines of a vector, is for the id its
\* 'object' record held, and the record is gone when the handler is done,
\* whether the engine answered success or failure (0).
C4_UnloadRemovesRecord ==
  [][ \A i \in 1..Len(calls') :
        (calls'[i].op = "Unload" /\ calls'[i].node # 0) =>
           /\ obj[calls'[i].node][calls'[i].kind] = calls'[i].id
           /\ obj'[calls'[i].node][calls'[i].kind] = NoObj ]_vars

\* a handler has unloaded an object, the engine answered failure, and the
\* 'object' record is gone
C4_Witness ==
  \E i \in 1..Len(calls) :
     /\ calls[i].op = "Unload" /\ calls[i].node # 0 /\ calls[i].ret = 0
     /\ obj[calls[i].node][calls[i].kind] = NoObj

\* C5: in a load pass every checked item of the snapshot that is not loaded
\* and is no placeholder is load-attempted, whatever other layers of the
\* snapshot fail to load or are placeholders.
C5_BadLayerDoesNotBlock ==
  [][ (op' = "DoPaint" /\ Snapshot.ok) =>
        \A n \in Range(Snapshot.litems) :
           (n \notin Range(layers) /\ ~T.space[n]) => n \in att' ]_vars

\* C6: the snapshot _GetDataLayers builds holds exactly the checked items of
\* type raster, vector or 3d-raster of the tree, at any depth, each once.
C6_SnapshotExact ==
  Snapshot.ok =>
     /\ Range(Snapshot.litems) = {n \in Items : checked[n] /\ Type(n) \in Supported}
     /\ Cardinality(Range(Snapshot.litems)) = Len(Snapshot.litems)

\* C7: a pass that returns unloads the sub-objects of every loaded vector
\* (in self.layers, holding an 'object' record) that is unchecked, and takes
\* it out of self.layers; the pass that follows its being checked again
\* loads what is checked and not in self.layers.
C7_VectorUnloadReload ==
  [][ (op' = "DoPaint" /\ exc' = "none") =>
        \A n \in Range(layers) :
           (Type(n) = "vector" /\ HasObject(n) /\ ~checked[n]) =>
              /\ \A s \in Sub : obj[n][s] # NoObj =>
                    (CalledId(calls', "Unload", n, s, obj[n][s]) /\ obj'[n][s] = NoObj)
              /\ n \notin Range(layers') ]_vars

\* C8: after a Reset that returned, called with every item of self.layers
\* holding an 'object' record, self.layers is empty and the unload call of
\* every object id recorded before it has been issued.
C8_ResetUnloadsAll ==
  [][ (op' = "Reset" /\ exc' = "none" /\ \A n \in Range(layers) : HasObject(n)) =>
        /\ layers' = <<>>
        /\ \A n \in Node, s \in Sub :
              obj[n][s] # NoObj => CalledId(calls', "Unload", n, s, obj[n][s]) ]_vars

\* C9: for every vector a load pass attempts, the points are loaded if and
\* only if npoints > 0 and the lines if and only if nlines > 0, and every
\* sub-object the engine loaded (an id that is not negative) has an 'object'
\* record of its own with that id.
C9_VectorSubObjects ==
  [][ op' = "DoPaint" =>
        \A n \in att' : Type(n) = "vector" =>
           /\ Called(calls', "Load", n, "points") <=> T.npoints[n] > 0
           /\ Called(calls', "Load", n, "lines") <=> T.nlines[n] > 0
           /\ \A i \in 1..Len(calls') :
                 (calls'[i].op = "Load" /\ calls'[i].node = n /\ calls'[i].id >= 0) =>
                    obj'[n][calls'[i].kind] = calls'[i].id ]_vars

C20_FocusPushedIffSet ==
  [][ op' = "UpdateView"
      => (Has(pcalls', "SetFocus") <=> iview.focus # FocusUnset) ]_vars

\* C21: after ResetView the stored z-exaggeration bounds are min = 0 and
\* max = 10 times the z-exaggeration the engine's defaults give, position,
\* perspective and twist are the user-preference values, and the stored
\* focus is the focus the engine reports after LookAtCenter.
C21_ResetView ==
  [][ op' = "ResetView" =>
        /\ view'.zexag
        /\ view'.zvalue = arg'.def.zexag
        /\ view'.zmin = 0
        /\ view'.zmax = 10 * arg'.def.zexag
        /\ view'.x = UserView.x
        /\ view'.y = UserView.y
        /\ view'.persp = UserView.persp
        /\ view'.twist = UserView.twist
        /\ iview'.focus = arg'.focus
        /\ Has(pcalls', "LookAtCenter") ]_vars

C21_Witness ==
  /\ op = "ResetView"
  /\ arg.def.zexag = 2
  /\ view.zmax = 20
  /\ arg.focus = [x |-> 1, y |-> -1, z |-> 0]
  /\ iview.focus = arg.focus
  /\ view.persp = UserView.persp

\* C22: after any sequence of mouse-wheel events, for any step size, the
\* stored perspective value stays within [1,100].
C22_PerspInRange == view.persp >= 1 /\ view.persp <= 100

C22_Witness ==
  /\ op = "OnMouseWheel"
  /\ arg.wheel = 1
  /\ view.step = 150
  /\ view.persp = 1
  /\ arg.painted

\* C23: a mouse-wheel event whose clamped perspective value equals the
\* previous value issues no SetView call and no redraw: no engine call at
\* all, and the registry and the view stay as they were.
C23_NoOpWheel ==
  [][ (op' = "OnMouseWheel" /\ arg'.value = view.persp) =>
        /\ ~arg'.painted
        /\ pcalls' = <<>>
        /\ calls' = <<>>
        /\ << layers, obj, eng, init, initView, nviz, view, iview >>' =
             << layers, obj, eng, init, initView, nviz, view, iview >> ]_vars

C23_Witness ==
  /\ op = "OnMouseWheel"
  /\ arg.wheel = -1
  /\ ~arg.painted
  /\ view.persp = 100
  /\ view.step = 30
  /\ checked[1]
  /\ layers = <<>>

\* the distance lines of the log
DistLines(l) == {i \in 1..Len(l) : l[i].line \in {"XY distance from previous",
                                                  "XYZ distance from previous"}}

\* C29: the query-point log is append-only: a query that hits appends
\* exactly its point at the end, a query that misses appends nothing, no
\* other handler (Reset included) removes or reorders points; distances are
\* reported only when the log holds at least two points, and then between
\* the new point and the point logged right before it.
C29_AppendOnly ==
  [][ /\ (op' = "OnQuerySurface" /\ arg'.hit)
          => qpoints' = Append(qpoints, << arg'.x, arg'.y, arg'.z >>)
      /\ ~(op' = "OnQuerySurface" /\ arg'.hit) => qpoints' = qpoints
      /\ op' = "OnQuerySurface" =>
          /\ (DistLines(log') # {} <=> (arg'.hit /\ Len(qpoints') >= 2))
          /\ \A i \in DistLines(log') :
               /\ log'[i].curr = qpoints'[Len(qpoints')]
               /\ log'[i].prev = qpoints'[Len(qpoints') - 1]
          /\ \A i \in 1..Len(pcalls') :
               pcalls'[i].op = "GetDistanceAlongSurface" =>
                 /\ Len(qpoints') >= 2
                 /\ pcalls'[i].arg[1] = qpoints'[Len(qpoints')]
                 /\ pcalls'[i].arg[2] = qpoints'[Len(qpoints') - 1] ]_vars

C29_Witness ==
  /\ op = "OnQuerySurface"
  /\ arg.hit
  /\ Len(qpoints) = 3
  /\ qpoints[1] # qpoints[2]
  /\ qpoints[2] # qpoints[3]
  /\ Cardinality(DistLines(log)) = 2
  /\ layers = <<>>
  /\ initView

\* C30: under every interleaving of the worker thread and the constructor
\* the display handle the constructed window holds is the engine the worker
\* created, never the unset value.
C30_DisplayReady == pc = "constructed" => display = "engine"

\* reading a command string: the value of a key, its comma separated entries
HasKey(str, name) ==
  \E k \in 1..(Len(str) - 1) : str[k] = name /\ str[k + 1] = "="
ValueOf(str, name) ==
  LET k == CHOOSE i \in 1..(Len(str) - 1) : str[i] = name /\ str[i + 1] = "="
  IN  Split(SubSeq(str, k + 2, Len(str)), " ")[1]
Entries(str, name) == IF HasKey(str, name) THEN Split(ValueOf(str, name), ",") ELSE <<>>
DrawKeys == {"mode", "resolution_fine", "resolution_coarse", "shading",
             "style", "wire_color"}
\* the rasters of the loaded list, their draw dictionaries all alike
LoadedRasters == SelectSeq(layers, LAMBDA n : Type(n) = "raster")
AllAlike ==
  \A i, j \in Range(LoadedRasters) : nviz[i].draw = nviz[j].draw
\* what a raster and a constant put into a draw list
DrawEntry(name, n) ==
  LET d == nviz[n].draw IN
  CASE name = "mode" -> d.mode.desc.mode
    [] name = "resolution_fine" -> << ToString(d.resolution.fine) >>
    [] name = "resolution_coarse" -> << ToString(d.resolution.coarse) >>
    [] name = "shading" -> d.mode.desc.shading
    [] name = "style" -> d.mode.desc.style
    [] OTHER -> d.wire.value
ConstEntry(name, c) ==
  CASE name = "mode" -> << "fine" >>
    [] name \in {"resolution_fine", "resolution_coarse"} -> << ToString(c.resolution) >>
    [] name = "shading" -> << "gouraud" >>
    [] name = "style" -> << "surface" >>
    [] OTHER -> << "0:0:0" >>

\* C24: with no raster in the loaded list and no constant, Nviz_cmd_command
\* gives the insufficient-data outcome (the message that a raster map is
\* required) and no command string, not even the start of one.
C24_NoSceneNoCommand ==
  [][ (op' = "Nviz_cmd_command" /\ LoadedRasters = <<>> /\ constants = <<>>)
        => /\ cmd' = << "At least one raster map required" >>
           /\ ~In("nviz_cmd", cmd')
           /\ \A i \in 1..Len(cmd') : cmd'[i] # "=" ]_vars

C24_Witness ==
  /\ op = "Nviz_cmd_command"
  /\ cmd = << "At least one raster map required" >>
  /\ checked[1]
  /\ LoadedRasters = <<>>
  /\ constants = <<>>
  /\ ui = UiFringe

\* C25 as claimed: the command carries -a exactly when the draw
\* dictionaries of all loaded rasters are alike, and then every one of the
\* six draw sub-attributes is written with one value; when two differ there
\* is no -a and every sub-attribute is written as a list.
C25_CompactAllSix ==
  [][ (op' = "Nviz_cmd_command" /\ LoadedRasters # <<>>) =>
        /\ In("-a", cmd') <=> AllAlike
        /\ \A name \in DrawKeys :
             /\ HasKey(cmd', name)
             /\ AllAlike => Len(Entries(cmd', name)) = 1 ]_vars

\* C25 as the code has it: -a exactly when the draw dictionaries (values,
\* update markers, apply-to-all flag) of all loaded rasters are alike; then
\* the mode is written with the first raster's value and, of the other
\* sub-attributes, only those that matter for it, each with one value: the
\* fine resolution for fine and both, the coarse one for coarse and both,
\* the shading when flat, the style when wire, the wire colour for coarse.
\* When two differ there is no -a and all six are written.
C25_CompactMeaningful ==
  [][ (op' = "Nviz_cmd_command" /\ LoadedRasters # <<>>) =>
        LET d == nviz[LoadedRasters[1]].draw
            mode == d.mode.desc.mode
        IN
        /\ In("-a", cmd') <=> AllAlike
        /\ ~AllAlike => \A name \in DrawKeys : HasKey(cmd', name)
        /\ AllAlike =>
             /\ \A name \in DrawKeys :
                  HasKey(cmd', name) =>
                    Entries(cmd', name) = << DrawEntry(name, LoadedRasters[1]) >>
             /\ HasKey(cmd', "mode")
             /\ HasKey(cmd', "resolution_fine")
                  <=> mode \in {<< "fine" >>, << "both" >>}
             /\ HasKey(cmd', "resolution_coarse")
                  <=> mode \in {<< "coarse" >>, << "both" >>}
             /\ HasKey(cmd', "shading") <=> d.mode.desc.shading = << "flat" >>
             /\ HasKey(cmd', "style") <=> d.mode.desc.style = << "wire" >>
             /\ HasKey(cmd', "wire_color") <=> mode = << "coarse" >> ]_vars

C25_Witness ==
  /\ op = "Nviz_cmd_command"
  /\ Len(LoadedRasters) = 2
  /\ AllAlike
  /\ In("-a", cmd)
  /\ Entries(cmd, "mode") = << << "fine" >> >>
  /\ HasKey(cmd, "resolution_fine")
  /\ ~HasKey(cmd, "style")
  /\ constants # <<>>

\* C26: in the full form each of the six draw lists holds one entry per
\* loaded raster, in the order of the loaded list, followed by one entry
\* per constant with the fixed defaults and the constant's resolution,
\* given that no attribute value is the empty string.
C26_FullLists ==
  [][ (/\ op' = "Nviz_cmd_command"
       /\ LoadedRasters # <<>>
       /\ ~In("-a", cmd')
       /\ \A n \in Range(LoadedRasters), name \in DrawKeys :
            DrawEntry(name, n) # <<>>)
        => \A name \in DrawKeys :
             Entries(cmd', name) =
               [i \in 1..Len(LoadedRasters) |-> DrawEntry(name, LoadedRasters[i])]
               \o [i \in 1..Len(constants) |-> ConstEntry(name, constants[i])] ]_vars

C26_Witness ==
  /\ op = "Nviz_cmd_command"
  /\ LoadedRasters = << 2, 1 >>
  /\ Len(constants) = 2
  /\ Entries(cmd, "mode") = << << "fine" >>, << "coarse" >>, << "fine" >>,
                               << "fine" >> >>
  /\ Entries(cmd, "resolution_fine") = << << "6" >>, << "3" >>, << "6" >>,
                                          << "6" >> >>

\* C27: every loaded raster contributes exactly one entry to color_map or
\* to color, every constant exactly one entry to color, and a clause is
\* left out exactly when it has no entry, in every scene with a raster or a
\* constant.
C27_ColourClauses ==
  [][ (op' = "Nviz_cmd_command" /\ ~(LoadedRasters = <<>> /\ constants = <<>>)) =>
        LET literal == SelectSeq(LoadedRasters,
                         LAMBDA n : nviz[n].color.present /\ ~nviz[n].color.map)
            mapped == SelectSeq(LoadedRasters,
                         LAMBDA n : ~(nviz[n].color.present /\ ~nviz[n].color.map))
        IN  /\ Len(Entries(cmd', "color_map")) = Len(mapped)
            /\ Len(Entries(cmd', "color")) = Len(literal) + Len(constants)
            /\ HasKey(cmd', "color_map") <=> mapped # <<>>
            /\ HasKey(cmd', "color") <=> (literal # <<>> \/ constants # <<>>) ]_vars

Holders(o, s, id) == {n \in Node : o[n][s] = id}

\* C31: an id is recorded for an entry only when no entry holds it: every
\* record that held it before is gone, and a record goes only in a handler
\* that issues the engine unload of its id; no two 'object' records of the
\* same kind ever hold the same id.
C31_UnloadBeforeReuse ==
  [][ \A n \in Node, s \in Sub :
        /\ (obj'[n][s] # NoObj /\ obj'[n][s] # obj[n][s]) =>
              /\ Holders(obj, s, obj'[n][s]) = {}
              /\ CalledId(calls', "Load", n, s, obj'[n][s])
        /\ (obj[n][s] # NoObj /\ obj'[n][s] # obj[n][s]) =>
              CalledId(calls', "Unload", n, s, obj[n][s])
        /\ obj'[n][s] # NoObj => Holders(obj', s, obj'[n][s]) = {n} ]_vars

\* raster 2 is loaded under the id 1 that it held before: raster 1 was
\* loaded under 2 while 1 was alive, and only a record's unload frees an id
C31_Witness ==
  /\ op = "DoPaint"
  /\ tree = 1
  /\ obj[1]["surface"] = 2
  /\ obj[2]["surface"] = 1
  /\ CalledId(calls, "Load", 2, "surface", 1)
  /\ ~Called(calls, "Load", 1, "surface")

\* the calls of a flush that carry the attribute at a path
CallsFor(cs, p) == {i \in 1..Len(cs) : p \in cs[i].attrs}

\* the engine's unset call of an attribute, "none" if it has none
UnsetCall(kind, a) ==
  CASE kind = "surface" /\ a = "mask"   -> "UnsetSurfaceMask"
    [] kind = "surface" /\ a = "transp" -> "UnsetSurfaceTransp"
    [] kind = "volume" /\ a = "mask"    -> "UnsetIsosurfaceMask"
    [] kind = "volume" /\ a = "transp"  -> "UnsetIsosurfaceTransp"
    [] kind = "volume" /\ a = "emit"    -> "UnsetIsosurfaceEmit"
    [] OTHER                            -> "none"

\* the attributes of the surface, or of the first isosurface of the volume,
\* that are dirty with an unset source
DirtyUnset(d) ==
  IF d.kind = "surface"
  THEN {<< "attribute", a >> : a \in {x \in Range(SurfAttrs) :
           d.attribute[x].shape = "unset" /\ d.attribute[x].update}}
  ELSE IF d.kind = "volume" /\ d.isosurface # <<>>
  THEN {<< "isosurface", a >> : a \in {x \in Range(IsoAttrs) :
           d.isosurface[1][x].shape = "unset" /\ d.isosurface[1][x].update}}
  ELSE {}

\* C32: in a flush, a dirty surface or isosurface attribute whose source is
\* unset gets exactly the engine's unset call when it is mask, transparency
\* or (isosurface) emission, and no engine call when it is colour or shine;
\* its marker is cleared in both cases.
C32_UnsetAttribute ==
  [][ op' = "UpdateMapObjProperties" =>
        \A p \in DirtySet(data) \cap DirtyUnset(data) :
          /\ ~IsDirty(data', p)
          /\ IF UnsetCall(data.kind, p[2]) = "none"
             THEN CallsFor(pcalls', p) = {}
             ELSE /\ Cardinality(CallsFor(pcalls', p)) = 1
                  /\ \A i \in CallsFor(pcalls', p) :
                        /\ pcalls'[i].op = UnsetCall(data.kind, p[2])
                        /\ pcalls'[i].id = data.id ]_vars

\* a surface flush found mask and shine dirty and unset: the mask was unset
\* in the engine, nothing was called for the shine, both markers are gone
C32_Witness ==
  /\ op = "UpdateMapObjProperties"
  /\ arg.kind = "surface"
  /\ DirtyUnset(arg) = {<< "attribute", "mask" >>, << "attribute", "shine" >>}
  /\ \E i \in 1..Len(pcalls) : pcalls[i].op = "UnsetSurfaceMask"
  /\ CallsFor(pcalls, << "attribute", "shine" >>) = {}
  /\ DirtySet(data) = {}

\* C33: for every engine load of a handler that returned an id that is not
\* negative, the id 0 included, the item has an 'object' record of that kind
\* with exactly that id when the handler is done; for a negative id it has
\* no 'object' record.
C33_RecordIffLoaded ==
  [][ \A i \in 1..Len(calls') :
        (calls'[i].op = "Load" /\ calls'[i].node # 0) =>
           obj'[calls'[i].node][calls'[i].kind] =
              (IF calls'[i].id >= 0 THEN calls'[i].id ELSE NoObj) ]_vars

\* the places of the calls of a name among the calls of a flush
Places(cs, o) == {i \in 1..Len(cs) : cs[i].op = o}

\* C34: a surface flush that finds the draw mode dirty with a negative code
\* computes the code from the mode, style and shading names, stores it in
\* the record and passes it to the engine call that follows; a flush that
\* finds a stored code passes that code on and computes nothing.
C34_DrawModeCode ==
  [][ (op' = "UpdateMapObjProperties" /\ data.kind = "surface"
         /\ data.draw.mode.update) =>
        LET m == data.draw.mode
            code == GetDrawMode(m.desc.mode, m.desc.style, m.desc.shading)
            calc == Places(pcalls', "GetDrawMode")
            push == Places(pcalls', "SetSurfaceStyle")
        IN  /\ Cardinality(push) = 1
            /\ \A j \in push : pcalls'[j].style = data'.draw.mode.value
            /\ IF m.value < 0
               THEN /\ data'.draw.mode.value = code
                    /\ Cardinality(calc) = 1
                    /\ \A i \in calc, j \in push : i < j
               ELSE /\ data'.draw.mode.value = m.value
                    /\ calc = {} ]_vars

\* the second flush of a record whose code was -1: the code the first flush
\* stored for fine, surface, gouraud is passed on, nothing is computed
C34_Witness ==
  /\ op = "UpdateMapObjProperties"
  /\ arg.kind = "surface"
  /\ arg.draw.mode.update
  /\ arg.draw.mode.desc = SurfaceModeDefault.desc
  /\ arg.draw.mode.value = 2308
  /\ Places(pcalls, "GetDrawMode") = {}
  /\ \E j \in Places(pcalls, "SetSurfaceStyle") : pcalls[j].style = 2308

\* C35: self.layers holds every tree item at most once, a vector with both
\* points and lines included.
C35_LoadedOnce == Cardinality(Range(layers)) = Len(layers)

\* C36: the numeric names of the constants are strictly increasing in list
\* order, so no two constants of the list share a display name and
\* GetLayerId resolves the name of each to that constant's id.
C36_NamesIncrease ==
  /\ \A i, j \in 1..Len(constants) :
        i < j => constants[i].name < constants[j].name
  /\ \A i, j \in 1..Len(constants) :
        ConstName(constants[i]) = ConstName(constants[j]) => i = j
  /\ \A i \in 1..Len(constants) :
        GetLayerId("constant", ConstName(constants[i]), "none")
          = IntRet(constants[i].id)

\* a constant was added after the first of two was deleted: the list holds
\* constant#2 and constant#3
C36_Witness ==
  /\ op = "NewConstant"
  /\ Len(constants) = 2
  /\ constants[1].name = 2
  /\ constants[2].name = 3
  /\ GetLayerId("constant", "constant#3", "none") = IntRet(constants[2].id)

\* C37: a DoPaint whose load pass attempts a layer that was not loaded calls
\* ResetView in that DoPaint, so position, perspective and twist are the
\* user-preference values after it; a DoPaint that attempts no layer while
\* self.init is set calls no ResetView and leaves self.view as it was.
C37_PaintResetsView ==
  [][ op' = "DoPaint" =>
        /\ att' # {} =>
              /\ Has(pcalls', "SetViewDefault")
              /\ view'.x = UserView.x
              /\ view'.y = UserView.y
              /\ view'.persp = UserView.persp
              /\ view'.twist = UserView.twist
        /\ (att' = {} /\ init) =>
              /\ ~Has(pcalls', "SetViewDefault")
              /\ view' = view ]_vars

\* the surface data with every pending marker dropped and the apply-to-all
\* flag cleared: the scene that differs from nv in nothing else
Settled(nv) ==
  [n \in DOMAIN nv |->
     IF nv[n] = NoNviz THEN nv[n]
     ELSE [nv[n] EXCEPT !.draw.all = FALSE, !.draw.mode.update = FALSE,
                        !.draw.resolution.update = FALSE,
                        !.draw.wire.update = FALSE]]

\* C38: the choice between the compact -a form and the full form depends
\* only on the draw values of the loaded rasters: the scene Nviz_cmd_command
\* found and the scene that differs from it only in pending markers and in
\* the apply-to-all flag give the same choice and the same string.
C38_FormFromValuesOnly ==
  op = "Nviz_cmd_command" =>
    LET twin == Nviz_cmd_command(layers, constants, Settled(nviz), view,
                                 iview, ui)
    IN  /\ In("-a", cmd) <=> In("-a", twin)
        /\ cmd = twin

\* the engine calls a flush of the record d issues for its points object
PointsCalls(d, ret) ==
  SelectSeq(UpdateMapObjProperties(d, ret).pcalls, LAMBDA c : c.kind = "points")

\* C39: when the flush of a points object fails because SetVectorPointMode
\* returned -1 or -2, the points record is left as it was: every marker of
\* size, width, marker, colour, height and mode that was set is still set
\* (one of the first four is), and the next flush issues for the points
\* object the calls this one would have issued, SetVectorPointMode first.
C39_FailedFlushKeepsMarkers ==
  [][ (op' = "UpdateMapObjProperties" /\ exc' = "GException") =>
        /\ data'.points = data.points
        /\ \A p \in DirtySet(data) : p[1] = "points" => IsDirty(data', p)
        /\ \E i \in 1..Len(PointProps) : data'.points[PointProps[i]].update
        /\ \A r \in PointModeRet :
             /\ PointsCalls(data', r) = PointsCalls(data, r)
             /\ PointsCalls(data', r) # <<>>
             /\ PointsCalls(data', r)[1] = pcalls'[Len(pcalls')] ]_vars

C39_Witness ==
  /\ op = "UpdateMapObjProperties"
  /\ exc = "GException"
  /\ arg.kind = "vector"
  /\ data.points = arg.points
  /\ data.points.size.update
  /\ data.points.height.update
  /\ data.points.mode.update
  /\ pcalls[Len(pcalls)].op = "SetVectorPointMode"
  /\ Len(PointsCalls(data, 0)) >= 3

\* C40: in the compact -a form the wire colour is written exactly when the
\* mode holds 'coarse', or holds 'both' while the shading holds 'wire' (the
\* style does not count); the fine resolution is written for the modes fine
\* and both, the coarse one for coarse and both, and no other resolution.
C40_CompactWireAndResolution ==
  [][ (op' = "Nviz_cmd_command" /\ LoadedRasters # <<>> /\ In("-a", cmd')) =>
        LET desc == nviz[LoadedRasters[1]].draw.mode.desc
            n(name) == Len(Entries(cmd', name))
        IN
        /\ HasKey(cmd', "wire_color")
             <=> \/ In("coarse", desc.mode)
                 \/ In("both", desc.mode) /\ In("wire", desc.shading)
        /\ In("fine", desc.mode) => n("resolution_fine") = 1 /\ n("resolution_coarse") = 0
        /\ In("coarse", desc.mode) => n("resolution_fine") = 0 /\ n("resolution_coarse") = 1
        /\ In("both", desc.mode) => n("resolution_fine") = 1 /\ n("resolution_coarse") = 1 ]_vars

C40_Witness ==
  /\ op = "Nviz_cmd_command"
  /\ In("-a", cmd)
  /\ nviz[LoadedRasters[1]].draw.mode.desc =
       [mode |-> << "both" >>, shading |-> << "gouraud" >>, style |-> << "wire" >>]
  /\ HasKey(cmd, "style")
  /\ ~HasKey(cmd, "wire_color")
  /\ HasKey(cmd, "resolution_fine")
  /\ HasKey(cmd, "resolution_coarse")

\* C11: for every object kind a flush passes an attribute's value to an
\* engine call only when the attribute's update marker is set, and the
\* marker is cleared after the call.
C11_PushOnlyDirty ==
  [][ op' = "UpdateMapObjProperties" =>
        \A i \in 1..Len(pcalls') :
          /\ pcalls'[i].attrs \subseteq DirtySet(data)
          /\ pcalls'[i].attrs \cap DirtySet(data') = {} ]_vars

\* C12: once a flush of a record has returned, running the flush again with
\* no change of the record in between issues no engine call.
C12_SecondFlushSilent ==
  (op = "UpdateMapObjProperties" /\ exc = "none")
    => \A ret \in PointModeRet : UpdateMapObjProperties(data, ret).pcalls = <<>>

DrawOps == {"SetSurfaceRes", "SetSurfaceStyle", "SetWireColor"}

\* C13: in a surface flush every resolution, draw-style and wire-colour call
\* targets the wildcard id -1 and none the object's id when the apply-to-all
\* flag is set, and the object's id and none -1 when it is not.
C13_ApplyToAllTarget ==
  [][ (op' = "UpdateMapObjProperties" /\ data.kind = "surface") =>
        /\ data.id # -1
        /\ \A i \in 1..Len(pcalls') :
             pcalls'[i].op \in DrawOps =>
               pcalls'[i].id = (IF data.draw.all THEN -1 ELSE data.id) ]_vars

C13_Witness ==
  /\ op = "UpdateMapObjProperties"
  /\ arg.kind = "surface"
  /\ arg.draw.all
  /\ \E i \in 1..Len(pcalls) : pcalls[i].op = "SetWireColor" /\ pcalls[i].id = -1
  /\ \E i \in 1..Len(pcalls) : pcalls[i].op = "SetSurfaceRes" /\ pcalls[i].id = -1
  /\ \E i \in 1..Len(pcalls) :
       pcalls[i].op = "SetSurfacePosition" /\ pcalls[i].id = arg.id

\* C14: after every call of UpdateSurfaceProperties the apply-to-all flag of
\* the record is false, whether or not a resolution, draw-mode or wire-colour
\* attribute was dirty.
C14_AllFlagCleared ==
  [][ (op' = "UpdateMapObjProperties" /\ data.kind = "surface")
        => ~data'.draw.all ]_vars

C14_Witness ==
  /\ op = "UpdateMapObjProperties"
  /\ arg.kind = "surface"
  /\ arg.draw.all
  /\ ~arg.draw.resolution.update
  /\ ~arg.draw.mode.update
  /\ ~arg.draw.wire.update
  /\ ~data.draw.all

\* C15: when SetVectorPointMode returns -1 or -2 the flush raises an error
\* that stops only the points object's update: SetVectorPointMode is the
\* last call issued, the only one for the points object, and the lines
\* object of the same layer has had its pending updates applied.
C15_PointErrorStopsPointsOnly ==
  [][ (op' = "UpdateMapObjProperties" /\ exc' = "GException") =>
        LET n == Len(pcalls') IN
        /\ n >= 1
        /\ pcalls'[n].op = "SetVectorPointMode"
        /\ pcalls'[n].id = data.points.id
        /\ \A i \in 1..(n - 1) : pcalls'[i].kind = "lines"
        /\ data.lines.id # NoObj =>
             /\ \A p \in DirtySet(data) : p[1] = "lines" => ~IsDirty(data', p)
             /\ data.lines.height.update =>
                  \E i \in 1..n : /\ pcalls'[i].op = "SetVectorLineHeight"
                                   /\ pcalls'[i].id = data.lines.id
             /\ (data.lines.color.update \/ data.lines.width.update
                   \/ data.lines.mode.update) =>
                  \E i \in 1..n : /\ pcalls'[i].op = "SetVectorLineMode"
                                   /\ pcalls'[i].id = data.lines.id ]_vars

C15_Witness ==
  /\ op = "UpdateMapObjProperties"
  /\ exc = "GException"
  /\ arg.kind = "vector"
  /\ arg.lines.height.update
  /\ arg.points.height.update
  /\ data.points.height.update
  /\ ~data.lines.height.update
  /\ Len(pcalls) = 2
  /\ pcalls[1].op = "SetVectorLineHeight"
  /\ pcalls[2].op = "SetVectorPointMode"

\* the ids of the loaded rasters and of the constants that carry a name
SurfaceIds(name) ==
  {obj[n]["surface"] : n \in {x \in Range(layers) :
      Type(x) = "raster" /\ T.name[x] = name /\ obj[x]["surface"] # NoObj}}
  \cup {constants[i].id : i \in {j \in 1..Len(constants) :
                                   ConstName(constants[j]) = name}}

\* C16: in a vector lines or points flush that pushes the reference
\* surfaces, a name that resolves to a loaded raster or a constant gets
\* exactly one attach (show) or detach call with that object's id, and a
\* name that resolves to neither gets no call.
C16_ReferenceSurfaces ==
  [][ (op' = "FlushLayer" /\ exc' = "none") =>
        \A sub \in {"lines", "points"} :
          (obj[VectorItem][sub] # NoObj /\ data[sub].mode.update) =>
            \A item \in 1..Len(data[sub].mode.surface.value) :
              LET ids == SurfaceIds(data[sub].mode.surface.value[item])
                  cs == {i \in 1..Len(pcalls') :
                           pcalls'[i].kind = sub /\ pcalls'[i].item = item}
              IN  IF ids = {} THEN cs = {}
                  ELSE /\ Cardinality(cs) = 1
                       /\ \A i \in cs :
                            /\ pcalls'[i].sid.t = "int"
                            /\ pcalls'[i].sid.v \in ids
                            /\ pcalls'[i].op \in
                                 (IF data[sub].mode.surface.show[item]
                                  THEN {"SetVectorLineSurface",
                                        "SetVectorPointSurface"}
                                  ELSE {"UnsetVectorLineSurface",
                                        "UnsetVectorPointSurface"}) ]_vars

\* the ids of the loaded objects of a type that carry a name
LoadedIds(type, name, vsubtyp) ==
  IF type = "constant"
  THEN {constants[i].id : i \in {j \in 1..Len(constants) :
                                  ConstName(constants[j]) = name}}
  ELSE LET sub == CASE type = "raster" -> "surface"
                    [] type = "3d-raster" -> "volume"
                    [] vsubtyp = "vpoint" -> "points"
                    [] OTHER -> "lines"
       IN  {obj[n][sub] : n \in {x \in Range(layers) :
              Type(x) = type /\ T.name[x] = name /\ obj[x][sub] # NoObj}}

\* C17: GetLayerId(type, name) returns the id of the loaded layer or
\* constant of that type and name, and -1 when there is none, for every
\* type and for the empty name.
C17_GetLayerId ==
  \A type \in {"raster", "3d-raster", "vector", "constant"},
     name \in RefNames, vsubtyp \in {"vpoint", "vline"} :
    LET ids == LoadedIds(type, name, vsubtyp)
        r == GetLayerId(type, name, vsubtyp)
    IN  IF ids = {} THEN r = IntRet(-1)
        ELSE r.t = "int" /\ r.v \in ids

\* the engine call UpdateCPlane issues for a field
CPlaneOp(f) ==
  CASE f = "rotation" -> "SetCPlaneRotation"
    [] f = "position" -> "SetCPlaneTranslation"
    [] OTHER          -> "SetFenceColor"

\* C18: after SelectCPlane(i) with a valid index i, plane i is selected and
\* every other plane is unselected; at most one plane is ever selected.
C18_SingleSelection ==
  [][ /\ Cardinality(engCP'.sel) <= 1
      /\ (op' = "SelectCPlane" /\ arg'.index \in Planes)
           => engCP'.sel = {arg'.index} ]_vars

C18_Witness ==
  /\ op = "SelectCPlane"
  /\ arg.index = MaxCPlanes - 1
  /\ engCP.sel = {MaxCPlanes - 1}
  /\ Has(pcalls, "UnselectCPlane")

\* C19: UpdateCPlane issues an engine call for a field only if the field is
\* listed in the event, with the values of the plane at the event's index;
\* no other engine call is issued (the engine state of unlisted fields and
\* the selection stay as they were) and the stored plane records are
\* unchanged.
C19_OnlyListedFields ==
  [][ op' = "UpdateCPlane" =>
        LET pl == cplanes[arg'.current + 1] IN
        /\ \A f \in Fields :
             IF \E i \in 1..Len(arg'.update) : arg'.update[i] = f
             THEN \E i \in 1..Len(pcalls') :
                     /\ pcalls'[i].op = CPlaneOp(f)
                     /\ pcalls'[i].arg =
                          (CASE f = "rotation" ->
                                  << 0, pl.rotation.tilt, pl.rotation.rot >>
                             [] f = "position" ->
                                  << pl.position.x, pl.position.y, pl.position.z >>
                             [] OTHER -> << pl.shading >>)
             ELSE ~Has(pcalls', CPlaneOp(f))
        /\ Len(pcalls') = Len(arg'.update)
        /\ engCP' = engCP
        /\ cplanes' = cplanes ]_vars

C19_Witness ==
  /\ op = "UpdateCPlane"
  /\ arg.current = MaxCPlanes - 1
  /\ arg.update = << "position" >>
  /\ cplanes[arg.current + 1] # cplanes[1]
  /\ pcalls = << [op |-> "SetCPlaneTranslation", id |-> 0,
                   arg |-> << 1, 1, 1 >>] >>
  /\ cplanes[arg.current + 1].rotation.tilt = 1
  /\ engCP.sel # {}

====
